---- MODULE Spec2Model ----
(***************************************************************************)
(* Verification model of the Jeedom BACnet daemons.                        *)
(*                                                                         *)
(* Part 1: the trend-log ReadRange encoder rr_trend_log_encode             *)
(* (apps/bacnetStackd/trendlog_override.c) running in the single-threaded  *)
(* main loop of bacnetStackd (apps/bacnetStackd/bacnetStackd.c), next to   *)
(* the periodic trend-log ingestion.                                       *)
(***************************************************************************)
EXTENDS Integers, Naturals, Sequences, FiniteSets, TLC

(***************************************************************************)
(* Bounds of the model                                                     *)
(***************************************************************************)
\* capacity of the circular log buffer (TL_MAX_ENTRIES of the library, scaled)
MaxEntries == 3
\* cap on ulTotalRecordCount: appends stop once this many records were logged
MaxTotal == 7
\* minutes covered by the clock of the model (seconds are 0 or 59)
MaxMinute == 2
\* octets of the output buffer the caller hands to the encoder (MAX_APDU of the
\* library, scaled with the log capacity: one encoded record fits, a full log
\* does not)
MAX_APDU == 50

(***************************************************************************)
(* Program constants                                                       *)
(***************************************************************************)
INT32_MAX == 2147483647
INT32_MIN == (-2147483647) - 1
BACNET_STATUS_ERROR == -1
OBJECT_TRENDLOG == 20
PROP_LOG_BUFFER == 131

RR_BY_POSITION == "RR_BY_POSITION"
RR_BY_SEQUENCE == "RR_BY_SEQUENCE"
RR_BY_TIME == "RR_BY_TIME"
RR_READ_ALL == "RR_READ_ALL"

TL_TYPE_BOOL == "TL_TYPE_BOOL"
TL_TYPE_REAL == "TL_TYPE_REAL"
TL_TYPE_ENUM == "TL_TYPE_ENUM"
TL_TYPE_UNSIGN == "TL_TYPE_UNSIGN"
TL_TYPE_SIGN == "TL_TYPE_SIGN"
TL_TYPE_NULL == "TL_TYPE_NULL"
\* a record kind the switch of the encoder does not name (its default arm)
TL_TYPE_OTHER == "TL_TYPE_OTHER"

ERROR_NONE == "none"
ERROR_CLASS_OBJECT == "ERROR_CLASS_OBJECT"
ERROR_CLASS_PROPERTY == "ERROR_CLASS_PROPERTY"
ERROR_CLASS_SERVICES == "ERROR_CLASS_SERVICES"
ERROR_CODE_UNKNOWN_OBJECT == "ERROR_CODE_UNKNOWN_OBJECT"
ERROR_CODE_INVALID_ARRAY_INDEX == "ERROR_CODE_INVALID_ARRAY_INDEX"
ERROR_CODE_INVALID_PARAMETER_DATA_TYPE == "ERROR_CODE_INVALID_PARAMETER_DATA_TYPE"

(***************************************************************************)
(* 32-bit signed arithmetic (int32_t count, log_index, i, j).              *)
(* Every operator keeps its intermediate values inside the 32-bit range.   *)
(***************************************************************************)
\* a + b wraps modulo 2^32
Add32(a, b) ==
    IF b > 0 /\ a > INT32_MAX - b
    THEN (a - INT32_MAX - 1) + (b - INT32_MAX - 1)
    ELSE IF b < 0 /\ a < INT32_MIN - b
    THEN (a + INT32_MAX + 1) + (b + INT32_MAX + 1)
    ELSE a + b

\* -a modulo 2^32: the most negative value is its own negation
Neg32(a) == IF a = INT32_MIN THEN INT32_MIN ELSE -a

\* a - b modulo 2^32
Sub32(a, b) ==
    IF b = INT32_MIN
    THEN Add32(Add32(a, INT32_MAX), 1)
    ELSE Add32(a, -b)

\* does the signed addition a + b leave the 32-bit range (undefined in C)
AddOverflows(a, b) ==
    \/ b > 0 /\ a > INT32_MAX - b
    \/ b < 0 /\ a < INT32_MIN - b

Min(a, b) == IF a < b THEN a ELSE b

(***************************************************************************)
(* Time.  A BACNET_DATE_TIME is modelled by its minute and second fields;  *)
(* a time_t is a number of seconds.                                        *)
(***************************************************************************)
datetime_seconds_since_epoch(bdatetime) == bdatetime.min * 60 + bdatetime.sec

TL_Local_Time_To_BAC(seconds) == [min |-> seconds \div 60, sec |-> seconds % 60]

\* reference times a request may carry
RefTimes == [min : 0 .. MaxMinute, sec : {0, 59}]

\* time stamps the ingestion may store: 0:59, 1:00 and 2:00, so that a
\* reference can be older or newer than every record, or fall between two
\* records, and a record can be stamped before the one logged ahead of it
TimeStamps ==
    {59} \cup {datetime_seconds_since_epoch([min |-> m, sec |-> 0]) : m \in {1, 2}}

(***************************************************************************)
(* The trend log of the library: LogInfo (TL_LOG_INFO) and Logs            *)
(* (TL_DATA_REC), the latter held in logical order, oldest record first.   *)
(***************************************************************************)
\* the kinds a record may hold: the six value kinds the switch of the encoder
\* names, and a kind it leaves to its default arm
RecTypes ==
    <<TL_TYPE_REAL, TL_TYPE_BOOL, TL_TYPE_UNSIGN, TL_TYPE_SIGN, TL_TYPE_ENUM, TL_TYPE_NULL,
      TL_TYPE_OTHER>>

\* what the monitored point yields for the n-th record ever logged: the kinds
\* take turns, the value and the status bits follow n, so that no two records
\* of a log are the same
SampleData(n) ==
    LET kind == RecTypes[((n - 1) % Len(RecTypes)) + 1]
    IN  [ucRecType |-> kind,
         Datum |-> CASE kind = TL_TYPE_BOOL -> n % 2
                     [] kind = TL_TYPE_SIGN -> -n
                     [] kind = TL_TYPE_NULL -> 0
                     [] OTHER -> n,
         ucStatus |-> n % 16]

TL_DATA_REC(ts, d) ==
    [tTimeStamp |-> ts, ucRecType |-> d.ucRecType, Datum |-> d.Datum,
     ucStatus |-> d.ucStatus]

\* instance 0 is the trend log of the model, instance 1 is a valid instance
\* for which no log info is available, instance 2 is not a valid instance
ValidInstances == {0, 1}
InfoInstances == {0}
Instances == {0, 1, 2}

VARIABLES
    LogInfo,     \* [ulRecordCount, ulTotalRecordCount] of the trend log
    Logs,        \* the records of the trend log, index 1 = logical index 0
    pc,          \* "idle": top of the main loop; "replied": a ReadRange was handled
    rrIn,        \* the request descriptor as handed to rr_trend_log_encode
    pRequest,    \* the request descriptor after rr_trend_log_encode
    apdu,        \* what rr_trend_log_encode wrote to the output buffer
    iLen,        \* the value rr_trend_log_encode returned
    locked,      \* the host holds a lock across each call of the encoder
    locals,      \* [log_index, count, i] of an encoder that is in its loop
    trendlog_manager, \* [count, configs, buffers, write_index] of trendlog_manager.c
    now,         \* what time(NULL) returns
    written,     \* per log, the records accepted since it was added or cleared
    call,        \* the last call of the trend-log manager and what it did
    toLoad,      \* the configurations that are still to be added
    pending_requests, \* the pending-request table of the server
    handler,     \* [pc, req, out] of the command handler of the server
    reply,       \* the last reply handed to complete_request
    client_requests, \* pending_requests of the client daemon, by invoke ID
    heap,        \* [next, live]: the response strings strdup has handed out
    client,      \* [pc, invoke_id, ptr, out] of the command-handler thread
    network,     \* [pc, invoke_id] of the network thread
    response_mutex \* who holds response_mutex

\* the state of the encoder and of the log it reads
encoderVars == <<LogInfo, Logs, pc, rrIn, pRequest, apdu, iLen>>

\* the state of a host that runs the ingestion in a thread of its own
hostVars == <<locked, locals>>

\* the state of the trend-log manager
managerVars == <<trendlog_manager, now, written, call, toLoad>>

\* the pending-request table of the server and the thread that waits on it
serverVars == <<pending_requests, handler, reply>>

\* the client daemon bacnetStackc
clientVars == <<client_requests, heap, client, network, response_mutex>>

\* what the main loop of bacnetStackd never touches
others == <<hostVars, managerVars, serverVars, clientVars>>

\* what the encoder in a threaded host never touches
notHost == <<managerVars, serverVars, clientVars>>

\* what the trend-log manager never touches
notManager == <<encoderVars, hostVars, serverVars, clientVars>>

\* what the client functions of the server never touch
notServer == <<encoderVars, hostVars, managerVars, clientVars>>

\* what the client daemon never touches
notClient == <<encoderVars, hostVars, managerVars, serverVars>>

vars == <<encoderVars, others>>

Trend_Log_Valid_Instance(instance) == instance \in ValidInstances

\* a pointer is a sequence: <<>> is NULL, <<x>> points to x
Trend_Log_Get_Info(instance) ==
    IF instance \in InfoInstances THEN <<LogInfo>> ELSE <<>>

\* logical index 0 is the oldest record held; NULL outside [0, record count)
Trend_Log_Get_Record(instance, index) ==
    IF instance \in InfoInstances /\ index >= 0 /\ index < Len(Logs)
    THEN <<Logs[index + 1]>>
    ELSE <<>>

(***************************************************************************)
(* Encoders of the library: a token is <<encoder, tag number, payload>>.   *)
(***************************************************************************)
BoolBit(b) == IF b THEN 1 ELSE 0

encode_context_object_id(tag, type, instance) ==
    <<"context_object_id", tag, <<type, instance>>>>
encode_context_unsigned(tag, value) == <<"context_unsigned", tag, <<value>>>>
encode_context_bitstring(tag, bits) == <<"context_bitstring", tag, bits>>
encode_opening_tag(tag) == <<"opening_tag", tag, <<>>>>
encode_closing_tag(tag) == <<"closing_tag", tag, <<>>>>
encode_context_datetime(tag, dt) == <<"context_datetime", tag, <<dt.min, dt.sec>>>>
encode_application_null == <<"application_null", 0, <<>>>>
encode_application_boolean(v) == <<"application_boolean", 1, <<v>>>>
encode_application_unsigned(v) == <<"application_unsigned", 2, <<v>>>>
encode_application_signed(v) == <<"application_signed", 3, <<v>>>>
encode_application_real(v) == <<"application_real", 4, <<v>>>>
encode_application_enumerated(v) == <<"application_enumerated", 9, <<v>>>>

\* octets of an unsigned value
UnsignedLen(v) ==
    IF v < 256 THEN 1 ELSE IF v < 65536 THEN 2 ELSE IF v < 16777216 THEN 3 ELSE 4

\* octets of a signed value
SignedLen(v) ==
    IF v >= -128 /\ v < 128 THEN 1
    ELSE IF v >= -32768 /\ v < 32768 THEN 2
    ELSE IF v >= -8388608 /\ v < 8388608 THEN 3 ELSE 4

\* octets an encoder writes
TokenLen(tok) ==
    CASE tok[1] = "context_object_id" -> 5
      [] tok[1] = "context_unsigned" -> 1 + UnsignedLen(tok[3][1])
      [] tok[1] = "context_bitstring" -> 3
      [] tok[1] = "opening_tag" -> 1
      [] tok[1] = "closing_tag" -> 1
      [] tok[1] = "context_datetime" -> 12
      [] tok[1] = "application_null" -> 1
      [] tok[1] = "application_boolean" -> 1
      [] tok[1] = "application_unsigned" -> 1 + UnsignedLen(tok[3][1])
      [] tok[1] = "application_signed" -> 1 + SignedLen(tok[3][1])
      [] tok[1] = "application_real" -> 5
      [] tok[1] = "application_enumerated" -> 1 + UnsignedLen(tok[3][1])

RECURSIVE ApduLen(_)
ApduLen(toks) == IF toks = <<>> THEN 0 ELSE TokenLen(Head(toks)) + ApduLen(Tail(toks))

(***************************************************************************)
(* BACNET_BIT_STRING ResultFlags                                           *)
(***************************************************************************)
bitstring_init == [first_item |-> FALSE, last_item |-> FALSE, more_items |-> FALSE, bits_used |-> 0]

\* bitstring_init followed by the three bitstring_set_bit calls
ResultFlags(first, last, more) ==
    [first_item |-> first, last_item |-> last, more_items |-> more, bits_used |-> 3]

FlagBits(flags) ==
    <<BoolBit(flags.first_item), BoolBit(flags.last_item), BoolBit(flags.more_items)>>

(***************************************************************************)
(* rr_trend_log_encode (trendlog_override.c:258-586).                      *)
(* Its result is [iLen, pRequest, apdu]: the returned value, the request   *)
(* descriptor as left to the caller, and what was written to the buffer.   *)
(***************************************************************************)
\* mutant of ErrorReturn: the error path also clears the result fields
ErrorReturn_Mutant(req, class, code) ==
    [iLen |-> BACNET_STATUS_ERROR,
     pRequest |-> [req EXCEPT !.error_class = class, !.error_code = code,
                              !.ItemCount = 0, !.FirstSequence = 0],
     apdu |-> <<>>]

\* error return: only the error fields of the descriptor are touched
ErrorReturn(req, class, code) ==
    [iLen |-> BACNET_STATUS_ERROR,
     pRequest |-> [req EXCEPT !.error_class = class, !.error_code = code],
     apdu |-> <<>>]

\* the empty result: item count 0, first sequence 0, flags first and last
EmptyReply(req) ==
    LET flags == ResultFlags(TRUE, TRUE, FALSE)
        out == << encode_context_object_id(0, OBJECT_TRENDLOG, req.object_instance),
                  encode_context_unsigned(1, PROP_LOG_BUFFER),
                  encode_context_bitstring(2, FlagBits(flags)),
                  encode_context_unsigned(3, 0),
                  encode_opening_tag(4),
                  encode_closing_tag(4) >>
    IN  [iLen |-> ApduLen(out),
         pRequest |-> [req EXCEPT !.ItemCount = 0, !.FirstSequence = 0,
                                  !.ResultFlags = flags],
         apdu |-> out]

\* count = -count for a negative count.  Negating the most negative value
\* overflows, which is undefined: the build either wraps it to itself
\* (ub = "wrap") or goes on with the exact value 2^31 (ub = "exact"), which
\* orders against every index and record count as INT32_MAX does
Negate(count, ub) ==
    IF count = INT32_MIN /\ ub = "exact" THEN INT32_MAX ELSE Neg32(count)

\* mutant of IndexInvalid: the upper limit is off by one
IndexInvalid_Mutant(log_index, ulRecordCount) ==
    log_index < 1 \/ log_index > ulRecordCount + 1

\* the request refers to no record of the log
IndexInvalid(log_index, ulRecordCount) ==
    log_index < 1 \/ log_index > ulRecordCount

\* the forward read runs past the newest record.  The sum is a signed 32-bit
\* addition: when it overflows the behaviour is undefined, and the build
\* either wraps it (ub = "wrap") or compares the exact values (ub = "exact")
ForwardPastEnd(log_index, count, ulRecordCount, ub) ==
    IF AddOverflows(log_index, count) /\ ub = "exact"
    THEN count > ulRecordCount - log_index
    ELSE Add32(log_index, count) > ulRecordCount

\* mutant of ZeroBased: the conversion to a 0-based index is left out
ZeroBased_Mutant(ref) == ref

\* the 1-based reference index as a 0-based logical index
ZeroBased(ref) == ref - 1

\* RR_BY_POSITION: the slice [log_index, count] (0-based) or the index error
ResolveByPosition(req, ulRecordCount, ub) ==
    LET ref == req.RefIndex
        count == req.Count
    IN  IF IndexInvalid(ref, ulRecordCount)
        THEN [tag |-> "error", log_index |-> ref, count |-> count]
        ELSE LET log_index == ZeroBased(ref)
             IN  IF count < 0
                 THEN LET neg == Negate(count, ub)
                          back == IF neg > log_index + 1 THEN log_index + 1 ELSE neg
                      IN  [tag |-> "slice",
                           log_index |-> Add32(Sub32(log_index, back), 1),
                           count |-> back]
                 ELSE [tag |-> "slice", log_index |-> log_index,
                       count |-> IF ForwardPastEnd(log_index, count, ulRecordCount, ub)
                                 THEN ulRecordCount - log_index
                                 ELSE count]

\* the record at index i counts for a backward scan
MatchBackward(rec, ref_time) == rec.tTimeStamp <= ref_time

\* mutant of MatchForward: a record at the reference time is not taken
MatchForward_Mutant(rec, ref_time) == rec.tTimeStamp > ref_time

\* the record at index i counts for a forward scan
MatchForward(rec, ref_time) == rec.tTimeStamp >= ref_time

\* enough records are spanned: the scan stops
ScanDone(found_start, found_end, count) ==
    found_end - found_start + 1 >= count

\* the backward loop from index i down to 0: <<found_start, found_end>>
RECURSIVE ScanBackward(_, _, _, _, _, _)
ScanBackward(instance, ref_time, count, i, found_start, found_end) ==
    IF i < 0 THEN <<found_start, found_end>>
    ELSE LET rec == Trend_Log_Get_Record(instance, i)
         IN  IF rec = <<>>
             THEN ScanBackward(instance, ref_time, count, i - 1, found_start, found_end)
             ELSE IF MatchBackward(rec[1], ref_time)
             THEN LET fe == IF found_end = -1 THEN i ELSE found_end
                  IN  IF ScanDone(i, fe, count)
                      THEN <<i, fe>>
                      ELSE ScanBackward(instance, ref_time, count, i - 1, i, fe)
             ELSE ScanBackward(instance, ref_time, count, i - 1, found_start, found_end)

\* the forward loop from index i up to the record count: <<found_start, found_end>>
RECURSIVE ScanForward(_, _, _, _, _, _, _)
ScanForward(instance, ulRecordCount, ref_time, count, i, found_start, found_end) ==
    IF i >= ulRecordCount THEN <<found_start, found_end>>
    ELSE LET rec == Trend_Log_Get_Record(instance, i)
         IN  IF rec = <<>>
             THEN ScanForward(instance, ulRecordCount, ref_time, count, i + 1,
                              found_start, found_end)
             ELSE IF MatchForward(rec[1], ref_time)
             THEN LET fs == IF found_start = -1 THEN i ELSE found_start
                  IN  IF ScanDone(fs, i, count)
                      THEN <<fs, i>>
                      ELSE ScanForward(instance, ulRecordCount, ref_time, count, i + 1,
                                       fs, i)
             ELSE ScanForward(instance, ulRecordCount, ref_time, count, i + 1,
                              found_start, found_end)

\* mutant of NoMatch: the start index is tested against 0
NoMatch_Mutant(found) == found[1] = 0

\* the scan collected no record
NoMatch(found) == found[1] = -1

\* RR_BY_TIME: the index range spanned by the records the scan collected,
\* or the empty match
ResolveByTime(req, ulRecordCount, ub) ==
    LET ref_time == datetime_seconds_since_epoch(req.RefTime)
        found == IF req.Count < 0
                 THEN ScanBackward(req.object_instance, ref_time, Negate(req.Count, ub),
                                   ulRecordCount - 1, -1, -1)
                 ELSE ScanForward(req.object_instance, ulRecordCount, ref_time,
                                  req.Count, 0, -1, -1)
    IN  IF NoMatch(found)
        THEN [tag |-> "empty", log_index |-> 0, count |-> 0]
        ELSE [tag |-> "slice", log_index |-> found[1],
              count |-> found[2] - found[1] + 1]

\* RR_BY_SEQUENCE: the oldest |Count| records
ResolveBySequence(req, ulRecordCount, ub) ==
    LET abs == IF req.Count < 0 THEN Negate(req.Count, ub) ELSE req.Count
    IN  [tag |-> "slice", log_index |-> 0,
         count |-> IF abs > ulRecordCount THEN ulRecordCount ELSE abs]

\* mutant of ResolveRange: an unknown request type falls into the
\* by-sequence case
ResolveRange_Mutant(req, ulRecordCount, ub) ==
    CASE req.RequestType = RR_BY_POSITION -> ResolveByPosition(req, ulRecordCount, ub)
      [] req.RequestType = RR_BY_TIME -> ResolveByTime(req, ulRecordCount, ub)
      [] OTHER -> ResolveBySequence(req, ulRecordCount, ub)

\* the switch on the request type
ResolveRange(req, ulRecordCount, ub) ==
    CASE req.RequestType = RR_BY_POSITION -> ResolveByPosition(req, ulRecordCount, ub)
      [] req.RequestType = RR_BY_TIME -> ResolveByTime(req, ulRecordCount, ub)
      [] req.RequestType = RR_BY_SEQUENCE -> ResolveBySequence(req, ulRecordCount, ub)
      [] OTHER -> [tag |-> "unsupported", log_index |-> 0, count |-> 0]

\* mutant of EncodeDatum: a boolean is written as an unsigned integer
EncodeDatum_Mutant(rec) ==
    CASE rec.ucRecType = TL_TYPE_SIGN -> encode_application_signed(rec.Datum)
      [] rec.ucRecType = TL_TYPE_REAL -> encode_application_real(rec.Datum)
      [] rec.ucRecType = TL_TYPE_ENUM -> encode_application_enumerated(rec.Datum)
      [] rec.ucRecType \in {TL_TYPE_UNSIGN, TL_TYPE_BOOL} ->
            encode_application_unsigned(rec.Datum)
      [] OTHER -> encode_application_null

\* logData: the value encoded by the kind that was stored
EncodeDatum(rec) ==
    CASE rec.ucRecType = TL_TYPE_SIGN -> encode_application_signed(rec.Datum)
      [] rec.ucRecType = TL_TYPE_UNSIGN -> encode_application_unsigned(rec.Datum)
      [] rec.ucRecType = TL_TYPE_REAL -> encode_application_real(rec.Datum)
      [] rec.ucRecType = TL_TYPE_ENUM -> encode_application_enumerated(rec.Datum)
      [] rec.ucRecType = TL_TYPE_BOOL -> encode_application_boolean(rec.Datum)
      [] rec.ucRecType = TL_TYPE_NULL -> encode_application_null
      [] OTHER -> encode_application_null

\* mutant of StatusBits: in-alarm and fault are taken from each other's bit
StatusBits_Mutant(ucStatus) ==
    << (ucStatus \div 2) % 2, ucStatus % 2, (ucStatus \div 4) % 2, (ucStatus \div 8) % 2 >>

\* statusFlags: bits 0..3 of ucStatus
StatusBits(ucStatus) ==
    << ucStatus % 2, (ucStatus \div 2) % 2, (ucStatus \div 4) % 2, (ucStatus \div 8) % 2 >>

\* one log-record
EncodeRecord(rec) ==
    << encode_opening_tag(0),
       encode_context_datetime(0, TL_Local_Time_To_BAC(rec.tTimeStamp)),
       encode_opening_tag(1),
       EncodeDatum(rec),
       encode_closing_tag(1),
       encode_context_bitstring(2, StatusBits(rec.ucStatus)),
       encode_closing_tag(0) >>

\* mutant of EncodeItems: the records are written newest first
RECURSIVE EncodeItems_Mutant(_, _, _, _)
EncodeItems_Mutant(instance, log_index, count, i) ==
    IF i >= count \/ log_index + i >= Len(Logs) THEN <<>>
    ELSE LET rec == Trend_Log_Get_Record(instance, log_index + i)
         IN  IF rec = <<>>
             THEN EncodeItems_Mutant(instance, log_index, count, i + 1)
             ELSE EncodeItems_Mutant(instance, log_index, count, i + 1)
                  \o EncodeRecord(rec[1])

\* the encoding loop, from iteration i on.  A fetch that fails is skipped.  Once
\* log_index + i is past the newest record every further fetch fails, so the
\* remaining iterations (up to 2^31 of them) write nothing.
RECURSIVE EncodeItems(_, _, _, _)
EncodeItems(instance, log_index, count, i) ==
    IF i >= count \/ log_index + i >= Len(Logs) THEN <<>>
    ELSE LET rec == Trend_Log_Get_Record(instance, log_index + i)
         IN  IF rec = <<>>
             THEN EncodeItems(instance, log_index, count, i + 1)
             ELSE EncodeRecord(rec[1]) \o EncodeItems(instance, log_index, count, i + 1)

\* mutant of FirstSequenceOf: the position in the buffer is returned
FirstSequenceOf_InBuffer(info, log_index) == log_index + 1

\* mutant of FirstSequenceOf: the sequence numbers are counted from 0
FirstSequenceOf_Mutant(info, log_index) ==
    info.ulTotalRecordCount - info.ulRecordCount + log_index

\* FirstSequence of a non-empty result
FirstSequenceOf(info, log_index) ==
    info.ulTotalRecordCount - info.ulRecordCount + log_index + 1

\* the result flags of the slice.  The sums are signed 32-bit additions.
SliceFlags(log_index, count, ulRecordCount) ==
    ResultFlags(log_index = 0,
                Add32(log_index, count) >= ulRecordCount,
                Add32(log_index, count) < ulRecordCount)

\* the non-empty result: header, item data, first sequence number
SliceReply(req, info, log_index, count) ==
    LET first == FirstSequenceOf(info, log_index)
        flags == SliceFlags(log_index, count, info.ulRecordCount)
        out == << encode_context_object_id(0, OBJECT_TRENDLOG, req.object_instance),
                  encode_context_unsigned(1, PROP_LOG_BUFFER),
                  encode_context_bitstring(2, FlagBits(flags)),
                  encode_context_unsigned(3, count),
                  encode_opening_tag(4) >>
               \o EncodeItems(req.object_instance, log_index, count, 0)
               \o << encode_closing_tag(4) >>
               \o (IF first > 0 THEN << encode_context_unsigned(5, first) >> ELSE <<>>)
    IN  [iLen |-> ApduLen(out),
         pRequest |-> [req EXCEPT !.ItemCount = count, !.FirstSequence = first,
                                  !.ResultFlags = flags],
         apdu |-> out]

\* mutant of LogEmpty: the test for the empty log never fires
LogEmpty_Mutant(info) == info.ulRecordCount < 0

\* the log holds no record
LogEmpty(info) == info.ulRecordCount = 0

rr_trend_log_encode(req, ub) ==
    IF ~Trend_Log_Valid_Instance(req.object_instance)
    THEN ErrorReturn(req, ERROR_CLASS_OBJECT, ERROR_CODE_UNKNOWN_OBJECT)
    ELSE IF Trend_Log_Get_Info(req.object_instance) = <<>>
    THEN ErrorReturn(req, ERROR_CLASS_OBJECT, ERROR_CODE_UNKNOWN_OBJECT)
    ELSE LET info == Trend_Log_Get_Info(req.object_instance)[1]
         IN  IF LogEmpty(info)
             THEN EmptyReply(req)
             ELSE LET range == ResolveRange(req, info.ulRecordCount, ub)
                  IN  CASE range.tag = "error" ->
                             ErrorReturn(req, ERROR_CLASS_PROPERTY,
                                         ERROR_CODE_INVALID_ARRAY_INDEX)
                        [] range.tag = "unsupported" ->
                             ErrorReturn(req, ERROR_CLASS_SERVICES,
                                         ERROR_CODE_INVALID_PARAMETER_DATA_TYPE)
                        [] range.tag = "empty" -> EmptyReply(req)
                        [] OTHER ->
                             IF range.count <= 0
                             THEN EmptyReply(req)
                             ELSE SliceReply(req, info, range.log_index, range.count)

(***************************************************************************)
(* Requests                                                                *)
(***************************************************************************)
\* how the build evaluates a signed overflow
UBOutcomes == {"wrap", "exact"}

\* a signed operation of the encoder overflows only for a count at an end of
\* the 32-bit range: for every other count the outcomes are the same one
OutcomesFor(req) ==
    IF req.Count \in {INT32_MIN, INT32_MAX} THEN UBOutcomes ELSE {"wrap"}

\* counts a request may carry, the two ends of the 32-bit range included
Counts == (-(MaxEntries + 1) .. (MaxEntries + 1)) \cup {INT32_MIN, INT32_MAX}

\* reference indexes a by-position request may carry
RefIndexes == (0 .. (MaxEntries + 1)) \cup {INT32_MAX}

\* reference sequence numbers a by-sequence request may carry
RefSequences == {1, INT32_MAX}

\* what the descriptor holds in its result fields when it is handed in
PriorResults ==
    { [ItemCount |-> 0, FirstSequence |-> 0, ResultFlags |-> bitstring_init],
      [ItemCount |-> 9, FirstSequence |-> 9,
       ResultFlags |-> ResultFlags(FALSE, FALSE, TRUE)] }

BACNET_READ_RANGE_DATA(instance, type, index, time, count, prior) ==
    [object_instance |-> instance, RequestType |-> type,
     RefIndex |-> index, RefTime |-> time, Count |-> count,
     ItemCount |-> prior.ItemCount, FirstSequence |-> prior.FirstSequence,
     ResultFlags |-> prior.ResultFlags,
     error_class |-> ERROR_NONE, error_code |-> ERROR_NONE]

\* the Range union holds one reference: the other one is left at zero
ZeroTime == [min |-> 0, sec |-> 0]

\* the result fields a request with count c is handed in with: zeroed, and
\* left over from an earlier use when one record is asked for
PriorsFor(c) ==
    IF c \in {-1, 1} THEN PriorResults
    ELSE {[ItemCount |-> 0, FirstSequence |-> 0, ResultFlags |-> bitstring_init]}

\* requests for the trend log, every reference and count; requests for the
\* other instances, one reference and count per request type
Requests ==
    UNION {
        {BACNET_READ_RANGE_DATA(0, RR_BY_POSITION, x, ZeroTime, c, p) :
            x \in RefIndexes, p \in PriorsFor(c)}
        \cup
        {BACNET_READ_RANGE_DATA(0, RR_BY_TIME, 0, t, c, p) :
            t \in RefTimes, p \in PriorsFor(c)}
        \cup
        {BACNET_READ_RANGE_DATA(0, RR_BY_SEQUENCE, x, ZeroTime, c, p) :
            x \in RefSequences, p \in PriorsFor(c)}
        \cup
        {BACNET_READ_RANGE_DATA(0, RR_READ_ALL, 1, ZeroTime, c, p) :
            p \in PriorsFor(c)} : c \in Counts }
    \cup
    {BACNET_READ_RANGE_DATA(n, y, 1, ZeroTime, 1, p) :
        n \in Instances \ {0},
        y \in {RR_BY_POSITION, RR_BY_TIME, RR_BY_SEQUENCE, RR_READ_ALL},
        p \in PriorResults}

\* no ReadRange is being handled
NoRequest ==
    BACNET_READ_RANGE_DATA(0, RR_READ_ALL, 0, ZeroTime, 0,
        [ItemCount |-> 0, FirstSequence |-> 0, ResultFlags |-> bitstring_init])

\* the encoder is not in its loop
NoLocals == [log_index |-> 0, count |-> 0, i |-> 0]

\* bacnetStackd runs ingestion and request handling in one loop: no call of
\* the encoder is ever interleaved with an insertion
InitSingleThreaded == locked = TRUE /\ locals = NoLocals

\* no call of the trend-log manager was made yet
NoCall == [fn |-> "none", instance |-> 0, ret |-> FALSE, writes |-> <<>>,
           trapped |-> FALSE]

\* TrendLog_Manager_Init: the manager is zeroed
TrendLog_Manager_Init ==
    /\ trendlog_manager = [count |-> 0, configs |-> <<>>, buffers |-> <<>>,
                           write_index |-> <<>>]
    /\ now = 1
    /\ written = <<>>
    /\ call = NoCall
    /\ toLoad = <<>>

MAX_PENDING_REQUESTS == 2

\* a slot of the table after memset(.., 0, ..)
FreeSlot == [invoke_id |-> 0, completed |-> FALSE, error |-> FALSE,
             response_json |-> "NULL", timestamp |-> 0]

\* no reply was handled yet
NoReply == [invoke_id |-> 0, json_response |-> "NULL", is_error |-> FALSE,
            handled |-> FALSE]

\* the static table is zeroed, no command is being handled
InitServerTable ==
    /\ pending_requests = [i \in 1 .. MAX_PENDING_REQUESTS |-> FreeSlot]
    /\ handler = [pc |-> "idle", req |-> 0, out |-> "NULL"]
    /\ reply = NoReply

MaxInvoke == 2

\* what tsm_next_free_invokeID returns, and the invoke IDs of the PDUs that
\* are received: 0 when no invoke ID is free
InvokeIds == 0 .. MaxInvoke

\* a PENDING_REQUEST of the client daemon after memset(.., 0, ..); a
\* response_json is the number of the string strdup returned, 0 is NULL
ZeroRequest == [invoke_id |-> 0, completed |-> FALSE, error |-> FALSE,
                response_json |-> 0, timestamp |-> 0]

\* the client daemon after start: its static table is zeroed, no string was
\* allocated, both threads are idle and the mutex is free
InitClient ==
    /\ client_requests = [i \in InvokeIds |-> ZeroRequest]
    /\ heap = [next |-> 1, live |-> {}]
    /\ client = [pc |-> "idle", invoke_id |-> 0, ptr |-> 0, out |-> "NULL"]
    /\ network = [pc |-> "idle", invoke_id |-> 0]
    /\ response_mutex = "free"

(***************************************************************************)
(* The main loop of bacnetStackd                                           *)
(***************************************************************************)
\* Trend_Log_Init_Empty: every log starts disabled and empty
Init ==
    /\ LogInfo = [ulRecordCount |-> 0, ulTotalRecordCount |-> 0]
    /\ Logs = <<>>
    /\ pc = "idle"
    /\ rrIn = NoRequest
    /\ pRequest = NoRequest
    /\ apdu = <<>>
    /\ iLen = 0
    /\ InitSingleThreaded
    /\ TrendLog_Manager_Init
    /\ InitServerTable
    /\ InitClient

\* the library stores a record: the oldest one is overwritten once the
\* buffer is full, the total count keeps growing
TL_Insert_Record(rec) ==
    /\ Logs' = IF LogInfo.ulRecordCount < MaxEntries
               THEN Append(Logs, rec)
               ELSE Append(Tail(Logs), rec)
    /\ LogInfo' = [ulRecordCount |-> IF LogInfo.ulRecordCount < MaxEntries
                                     THEN LogInfo.ulRecordCount + 1
                                     ELSE LogInfo.ulRecordCount,
                   ulTotalRecordCount |-> LogInfo.ulTotalRecordCount + 1]

\* trend_log_timer(1): the periodic ingestion logs a sample
TrendLogTimer ==
    /\ pc = "idle"
    /\ LogInfo.ulTotalRecordCount < MaxTotal
    /\ \E ts \in TimeStamps :
          TL_Insert_Record(TL_DATA_REC(ts, SampleData(LogInfo.ulTotalRecordCount + 1)))
    /\ UNCHANGED <<pc, rrIn, pRequest, apdu, iLen>>
    /\ UNCHANGED others

\* mutant of ReadRange: the records that were sent are dropped from the log
ReadRange_Mutant ==
    /\ pc = "idle"
    /\ \E req \in Requests :
         \E ub \in OutcomesFor(req) :
           \E r \in {rr_trend_log_encode(req, ub)} :
              /\ rrIn' = req
              /\ pRequest' = r.pRequest
              /\ apdu' = r.apdu
              /\ iLen' = r.iLen
              /\ Logs' = IF r.iLen > 0 /\ r.pRequest.ItemCount >= Len(Logs)
                         THEN <<>> ELSE Logs
              /\ LogInfo' = IF r.iLen > 0 /\ r.pRequest.ItemCount >= Len(Logs)
                            THEN [LogInfo EXCEPT !.ulRecordCount = 0] ELSE LogInfo
    /\ pc' = "replied"
    /\ UNCHANGED others

\* npdu_handler on a ReadRange PDU for a trend log: the library decodes the
\* request and calls rr_trend_log_encode with a fresh output buffer
ReadRange ==
    /\ pc = "idle"
    /\ \E req \in Requests :
         \E ub \in OutcomesFor(req) :
           \E r \in {rr_trend_log_encode(req, ub)} :
              /\ rrIn' = req
              /\ pRequest' = r.pRequest
              /\ apdu' = r.apdu
              /\ iLen' = r.iLen
    /\ pc' = "replied"
    /\ UNCHANGED <<LogInfo, Logs>>
    /\ UNCHANGED others

\* the handler returns to the main loop; descriptor and buffer are dropped
LoopNext ==
    /\ pc = "replied"
    /\ pc' = "idle"
    /\ rrIn' = NoRequest
    /\ pRequest' = NoRequest
    /\ apdu' = <<>>
    /\ iLen' = 0
    /\ UNCHANGED <<LogInfo, Logs>>
    /\ UNCHANGED others

Next == TrendLogTimer \/ ReadRange \/ LoopNext

Spec == Init /\ [][Next]_vars

TypeOK ==
    /\ LogInfo.ulRecordCount = Len(Logs)
    /\ LogInfo.ulRecordCount <= MaxEntries
    /\ LogInfo.ulTotalRecordCount >= LogInfo.ulRecordCount
    /\ pc \in {"idle", "replied"}

(***************************************************************************)
(* Reading a response back: the inverse of the item-data encoding          *)
(***************************************************************************)
\* the tokens between the opening and the closing tag 4
ItemTokens(out) ==
    LET last == IF out[Len(out)] = encode_closing_tag(4) THEN Len(out) - 1
                ELSE Len(out) - 2
    IN  SubSeq(out, 6, last)

DecodeKind(tok) ==
    CASE tok[1] = "application_signed" -> TL_TYPE_SIGN
      [] tok[1] = "application_unsigned" -> TL_TYPE_UNSIGN
      [] tok[1] = "application_real" -> TL_TYPE_REAL
      [] tok[1] = "application_enumerated" -> TL_TYPE_ENUM
      [] tok[1] = "application_boolean" -> TL_TYPE_BOOL
      [] OTHER -> TL_TYPE_NULL

\* the log record of seven consecutive tokens
DecodeRecord(toks) ==
    [tTimeStamp |-> toks[2][3][1] * 60 + toks[2][3][2],
     ucRecType |-> DecodeKind(toks[4]),
     Datum |-> IF toks[4][3] = <<>> THEN 0 ELSE toks[4][3][1],
     ucStatus |-> toks[6][3][1] + 2 * toks[6][3][2] + 4 * toks[6][3][3]
                  + 8 * toks[6][3][4]]

DecodeItems(out) ==
    LET items == ItemTokens(out)
    IN  [k \in 1 .. (Len(items) \div 7) |->
            DecodeRecord(SubSeq(items, 7 * (k - 1) + 1, 7 * k))]

\* the items of a successful response as a client decodes them, in order
ReturnedItems == IF iLen >= 0 /\ apdu # <<>> THEN DecodeItems(apdu) ELSE <<>>

\* the record of the log an item stands for: the one with the time stamp and
\* the status flags of the item (no two records of a log have the same flags)
RecordOf(item) ==
    CHOOSE rec \in {Logs[k] : k \in 1 .. Len(Logs)} :
        rec.tTimeStamp = item.tTimeStamp /\ rec.ucStatus = item.ucStatus

\* the records of a successful response, in the order they were encoded
ReturnedRecords ==
    LET items == ReturnedItems
    IN  [k \in 1 .. Len(items) |-> RecordOf(items[k])]

(***************************************************************************)
(* Vocabulary of the claims                                                *)
(***************************************************************************)
Replied == pc = "replied"
OnTheLog == Replied /\ rrIn.object_instance \in InfoInstances
RecordCount == LogInfo.ulRecordCount
Succeeded == iLen >= 0
Failed == iLen = BACNET_STATUS_ERROR

\* item count 0, first sequence 0, first and last set, more clear
IsEmptyResult ==
    /\ Succeeded
    /\ pRequest.ItemCount = 0
    /\ pRequest.FirstSequence = 0
    /\ pRequest.ResultFlags = ResultFlags(TRUE, TRUE, FALSE)
    /\ ReturnedRecords = <<>>

\* the result fields of the descriptor are as they were handed in
ResultFieldsUntouched ==
    /\ pRequest.ItemCount = rrIn.ItemCount
    /\ pRequest.FirstSequence = rrIn.FirstSequence
    /\ pRequest.ResultFlags = rrIn.ResultFlags

\* the time stamps of the log never decrease with the logical index
Monotonic == \A a, b \in 1 .. Len(Logs) : a <= b => Logs[a].tTimeStamp <= Logs[b].tTimeStamp

RefSeconds == rrIn.RefTime.min * 60 + rrIn.RefTime.sec
AtOrAfterRef(rec) == rec.tTimeStamp >= RefSeconds
AtOrBeforeRef(rec) == rec.tTimeStamp <= RefSeconds

\* the first n elements and the last n elements of a sequence
FirstN(seq, n) == SubSeq(seq, 1, Min(n, Len(seq)))
LastN(seq, n) == SubSeq(seq, Len(seq) - Min(n, Len(seq)) + 1, Len(seq))

(***************************************************************************)
(* Claims                                                                  *)
(***************************************************************************)
\* C1: on an existing trend log that holds no record every request succeeds
\* with item count 0, first sequence 0 and flags first, last, not more,
\* whatever its request type, reference and count.
C1_EmptyLogAlwaysEmptyResult ==
    (OnTheLog /\ RecordCount = 0) => IsEmptyResult

C1_Witness ==
    /\ OnTheLog /\ RecordCount = 0
    /\ rrIn.RequestType = RR_READ_ALL
    /\ rrIn.ItemCount = 9
    /\ IsEmptyResult

\* C2 as stated: a by-position request whose reference index is outside
\* [1, record_count] fails with "invalid array index" and writes nothing.
C2_Original ==
    (OnTheLog /\ rrIn.RequestType = RR_BY_POSITION
        /\ (rrIn.RefIndex < 1 \/ rrIn.RefIndex > RecordCount))
    => (Failed /\ pRequest.error_code = ERROR_CODE_INVALID_ARRAY_INDEX /\ apdu = <<>>)

\* C2 amended: on a log that holds at least one record, a by-position request
\* whose reference index is outside [1, record_count] fails with "invalid
\* array index" and writes nothing to the output buffer.
C2_IndexOutOfRangeOnNonEmptyLog ==
    (OnTheLog /\ RecordCount >= 1 /\ rrIn.RequestType = RR_BY_POSITION
        /\ (rrIn.RefIndex < 1 \/ rrIn.RefIndex > RecordCount))
    => (Failed /\ pRequest.error_class = ERROR_CLASS_PROPERTY
        /\ pRequest.error_code = ERROR_CODE_INVALID_ARRAY_INDEX /\ apdu = <<>>)

C2_Witness ==
    /\ OnTheLog /\ RecordCount >= 1 /\ rrIn.RequestType = RR_BY_POSITION
    /\ rrIn.RefIndex = RecordCount + 1
    /\ Failed /\ pRequest.error_code = ERROR_CODE_INVALID_ARRAY_INDEX

\* C3: a request for an instance that is not a trend log, or for which no log
\* info is available, fails with class "object", code "unknown object",
\* writes nothing and leaves item count, first sequence and flags untouched.
C3_UnknownInstance ==
    (Replied /\ rrIn.object_instance \notin InfoInstances)
    => (/\ Failed
        /\ pRequest.error_class = ERROR_CLASS_OBJECT
        /\ pRequest.error_code = ERROR_CODE_UNKNOWN_OBJECT
        /\ apdu = <<>>
        /\ ResultFieldsUntouched)

C3_Witness ==
    /\ Replied /\ rrIn.object_instance \in ValidInstances \ InfoInstances
    /\ rrIn.ItemCount = 9
    /\ Failed /\ pRequest.error_code = ERROR_CODE_UNKNOWN_OBJECT
    /\ pRequest.ItemCount = 9

\* C4 as stated: on an existing trend log a request of an unsupported type
\* fails with "invalid parameter data type".
C4_Original ==
    (OnTheLog /\ rrIn.RequestType \notin {RR_BY_POSITION, RR_BY_TIME, RR_BY_SEQUENCE})
    => (Failed /\ pRequest.error_code = ERROR_CODE_INVALID_PARAMETER_DATA_TYPE)

\* C4 amended: on an existing trend log that holds at least one record, a
\* request of an unsupported type fails with "invalid parameter data type".
C4_UnsupportedTypeOnNonEmptyLog ==
    (OnTheLog /\ RecordCount >= 1
        /\ rrIn.RequestType \notin {RR_BY_POSITION, RR_BY_TIME, RR_BY_SEQUENCE})
    => (Failed /\ pRequest.error_class = ERROR_CLASS_SERVICES
        /\ pRequest.error_code = ERROR_CODE_INVALID_PARAMETER_DATA_TYPE)

C4_Witness ==
    /\ OnTheLog /\ RecordCount >= 1 /\ rrIn.RequestType = RR_READ_ALL
    /\ Failed /\ pRequest.error_code = ERROR_CODE_INVALID_PARAMETER_DATA_TYPE

\* the by-position request refers to a record of the log
ByPositionInRange ==
    /\ OnTheLog /\ rrIn.RequestType = RR_BY_POSITION
    /\ rrIn.RefIndex >= 1 /\ rrIn.RefIndex <= RecordCount

\* C5: a by-position request with reference index r in [1, record_count] and
\* a positive count c returns the records at positions r .. min(r+c-1,
\* record_count) in that order; index 1 with count record_count returns every
\* record with flags first, last, not more.
C5_ForwardByPosition ==
    (ByPositionInRange /\ rrIn.Count > 0)
    => LET r == rrIn.RefIndex
           c == rrIn.Count
           last == IF c > RecordCount - r THEN RecordCount ELSE r + c - 1
       IN  /\ Succeeded
           /\ ReturnedRecords = SubSeq(Logs, r, last)
           /\ (r = 1 /\ c = RecordCount) =>
                 /\ ReturnedRecords = Logs
                 /\ pRequest.ResultFlags = ResultFlags(TRUE, TRUE, FALSE)

C5_Witness ==
    /\ ByPositionInRange /\ rrIn.RefIndex = 2 /\ rrIn.Count = 2
    /\ RecordCount = MaxEntries
    /\ ReturnedRecords = <<Logs[2], Logs[3]>>

\* C6 as stated: a by-position request with reference index r in
\* [1, record_count] and a negative count -k returns the records at positions
\* max(1, r-k+1) .. r.
C6_BackwardByPosition ==
    (ByPositionInRange /\ rrIn.Count < 0)
    => LET r == rrIn.RefIndex
           c == rrIn.Count
           first == IF c = INT32_MIN \/ -c >= r THEN 1 ELSE r + c + 1
       IN  /\ Succeeded
           /\ ReturnedRecords = SubSeq(Logs, first, r)

\* C7: on a log whose time stamps never decrease, a by-time request with a
\* positive count c returns the first min(c, m) of the m records whose time
\* stamp is >= the reference; a reference older than every record with
\* c = record_count returns every record.
C7_ForwardByTime ==
    (OnTheLog /\ RecordCount >= 1 /\ rrIn.RequestType = RR_BY_TIME
        /\ rrIn.Count > 0 /\ Monotonic)
    => /\ Succeeded
       /\ ReturnedRecords = FirstN(SelectSeq(Logs, AtOrAfterRef), rrIn.Count)
       /\ ((\A k \in 1 .. Len(Logs) : Logs[k].tTimeStamp > RefSeconds)
            /\ rrIn.Count = RecordCount) => ReturnedRecords = Logs

C7_Witness ==
    /\ OnTheLog /\ rrIn.RequestType = RR_BY_TIME /\ rrIn.Count = 1 /\ Monotonic
    /\ RecordCount = MaxEntries
    /\ ~AtOrAfterRef(Logs[1]) /\ AtOrAfterRef(Logs[2])
    /\ ReturnedRecords = <<Logs[2]>>

\* C8 as stated: on a log whose time stamps never decrease, a by-time request
\* with a negative count -k returns the min(k, m) newest of the m records
\* whose time stamp is <= the reference.
C8_BackwardByTime ==
    (OnTheLog /\ RecordCount >= 1 /\ rrIn.RequestType = RR_BY_TIME
        /\ rrIn.Count < 0 /\ Monotonic)
    => LET k == IF rrIn.Count = INT32_MIN THEN INT32_MAX ELSE -rrIn.Count
       IN  /\ Succeeded
           /\ ReturnedRecords = LastN(SelectSeq(Logs, AtOrBeforeRef), k)

\* no record satisfies the time predicate of the direction of the request
NoRecordInTimeRange ==
    IF rrIn.Count < 0
    THEN \A k \in 1 .. Len(Logs) : ~AtOrBeforeRef(Logs[k])
    ELSE \A k \in 1 .. Len(Logs) : ~AtOrAfterRef(Logs[k])

\* C9: a by-time request on a log that holds records, none of which satisfies
\* the time predicate of the direction of the request, succeeds with item
\* count 0, first sequence 0 and flags first, last, not more.
C9_NoMatchIsEmptyResult ==
    (OnTheLog /\ RecordCount >= 1 /\ rrIn.RequestType = RR_BY_TIME
        /\ NoRecordInTimeRange)
    => (IsEmptyResult /\ pRequest.error_code = ERROR_NONE)

C9_Witness ==
    /\ OnTheLog /\ RecordCount >= 2 /\ rrIn.RequestType = RR_BY_TIME
    /\ rrIn.Count < 0 /\ NoRecordInTimeRange
    /\ rrIn.ItemCount = 9
    /\ IsEmptyResult

\* C10 as stated: every record a by-time request returns satisfies the time
\* predicate of the direction of the request, whatever the order of the time
\* stamps in the log.
C10_ReturnedRecordsInTimeRange ==
    (OnTheLog /\ rrIn.RequestType = RR_BY_TIME)
    => \A k \in 1 .. Len(ReturnedRecords) :
          IF rrIn.Count < 0
          THEN AtOrBeforeRef(ReturnedRecords[k])
          ELSE AtOrAfterRef(ReturnedRecords[k])

\* the absolute value of a requested count that has one in 32 bits
Abs(n) == IF n < 0 THEN -n ELSE n

\* C11 as stated: the item count a by-time request returns never exceeds the
\* absolute value of the requested count, for every requested count; a
\* request for 0 records returns the empty result.
C11_ByTimeItemCountWithinRequest ==
    (OnTheLog /\ rrIn.RequestType = RR_BY_TIME /\ Succeeded)
    => /\ (rrIn.Count # INT32_MIN) =>
             /\ pRequest.ItemCount <= Abs(rrIn.Count)
             /\ Len(ReturnedRecords) <= Abs(rrIn.Count)
       /\ (rrIn.Count = 0) => IsEmptyResult

\* a successful response on the log that carries at least one item
NonEmptyResult == OnTheLog /\ Succeeded /\ pRequest.ItemCount >= 1

\* the 0-based logical index of the first returned record (no two records of
\* a log are the same)
StartIndex ==
    LET first == ReturnedRecords[1]
    IN  CHOOSE k \in 0 .. (Len(Logs) - 1) : Logs[k + 1] = first

\* what the monitored point yielded for a record
PayloadOf(rec) ==
    [ucRecType |-> rec.ucRecType, Datum |-> rec.Datum, ucStatus |-> rec.ucStatus]

\* C12: for every non-empty successful result, first_sequence equals
\* total_record_count - record_count + start_index + 1, start_index being the
\* 0-based logical index of the first returned record; it is the 1-based
\* sequence number of that record counted over all records ever appended, and
\* it is the value of the first-sequence-number field of the response.
C12_FirstSequenceOfSlice ==
    NonEmptyResult
    => LET recs == ReturnedRecords
       IN  /\ recs # <<>>
           /\ recs[1] \in {Logs[k] : k \in 1 .. Len(Logs)}
           /\ pRequest.FirstSequence =
                 LogInfo.ulTotalRecordCount - LogInfo.ulRecordCount + StartIndex + 1
           /\ PayloadOf(recs[1]) = SampleData(pRequest.FirstSequence)
           /\ apdu[Len(apdu)] = encode_context_unsigned(5, pRequest.FirstSequence)

C12_Witness ==
    /\ NonEmptyResult
    /\ LogInfo.ulTotalRecordCount > MaxEntries
    /\ rrIn.RequestType = RR_BY_POSITION /\ rrIn.RefIndex = 2 /\ rrIn.Count = 1
    /\ StartIndex = 1
    /\ pRequest.FirstSequence = LogInfo.ulTotalRecordCount - MaxEntries + 2

\* C13 as stated: for every non-empty successful result with resolved slice
\* (start_index, count), first_item is true exactly when start_index = 0,
\* last_item exactly when start_index + count >= record_count, and more_items
\* exactly when start_index + count < record_count; the response carries
\* these three bits.
C13_ResultFlagsOfSlice ==
    NonEmptyResult
    => /\ pRequest.ResultFlags.first_item <=> (StartIndex = 0)
       /\ pRequest.ResultFlags.last_item
             <=> (pRequest.ItemCount >= RecordCount - StartIndex)
       /\ pRequest.ResultFlags.more_items
             <=> (pRequest.ItemCount < RecordCount - StartIndex)
       /\ apdu[3] = encode_context_bitstring(2, FlagBits(pRequest.ResultFlags))

\* the by-position requests for the trend log
ByPositionRequests ==
    {req \in Requests : req.object_instance \in InfoInstances
                        /\ req.RequestType = RR_BY_POSITION}

\* the slice of a by-position request on a log of n records, when it is answered
\* with records
AnsweredWithRecords(range) == range.tag = "slice" /\ range.count >= 1

\* the reply in the output variables is the non-empty reply to rrIn on the log
\* as it is: its first_sequence is the one computed for the resolved slice
ReplyIsOfSlice ==
    (NonEmptyResult /\ rrIn.RequestType = RR_BY_POSITION)
    => \E ub \in OutcomesFor(rrIn) :
          LET range == ResolveByPosition(rrIn, LogInfo.ulRecordCount, ub)
          IN  /\ AnsweredWithRecords(range)
              /\ pRequest.ItemCount = range.count
              /\ pRequest.FirstSequence = FirstSequenceOf(LogInfo, range.log_index)

\* what an append does to the first_sequence of every by-position request
\* that was answered with records before it
AppendKeepsOrder ==
    (LogInfo'.ulTotalRecordCount > LogInfo.ulTotalRecordCount)
    => \A req \in ByPositionRequests : \A ub \in OutcomesFor(req) :
          LET before == ResolveByPosition(req, LogInfo.ulRecordCount, ub)
              after == ResolveByPosition(req, LogInfo'.ulRecordCount, ub)
              seqBefore == FirstSequenceOf(LogInfo, before.log_index)
              seqAfter == FirstSequenceOf(LogInfo', after.log_index)
          IN  AnsweredWithRecords(before)
              => /\ AnsweredWithRecords(after)
                 /\ seqAfter >= seqBefore
                 /\ (LogInfo.ulRecordCount = MaxEntries) => seqAfter = seqBefore + 1
                 /\ (LogInfo.ulRecordCount < MaxEntries) => seqAfter = seqBefore

\* C14: across appends to the log interleaved with repeated identical
\* by-position requests, the first_sequence returned never decreases (a
\* request that was answered with records is still answered with records
\* after an append, with a first_sequence at least as large), and once the
\* buffer is full each further append increases the first_sequence returned
\* for the same request by exactly 1.
C14_FirstSequenceGrowsWithAppends ==
    /\ []ReplyIsOfSlice
    /\ [][AppendKeepsOrder]_vars

\* a request answered after the buffer was overwritten twice: the position
\* that had first_sequence 2 when the buffer became full has grown by 2
C14_Witness ==
    /\ NonEmptyResult
    /\ rrIn.RequestType = RR_BY_POSITION /\ rrIn.RefIndex = 2 /\ rrIn.Count = 1
    /\ RecordCount = MaxEntries
    /\ LogInfo.ulTotalRecordCount = MaxEntries + 2
    /\ pRequest.FirstSequence = 4

\* the kinds the switch of the encoder names
NamedKinds ==
    {TL_TYPE_SIGN, TL_TYPE_UNSIGN, TL_TYPE_REAL, TL_TYPE_ENUM, TL_TYPE_BOOL, TL_TYPE_NULL}

\* the 0-based logical index the first sequence number of the response names
SliceStart ==
    pRequest.FirstSequence - (LogInfo.ulTotalRecordCount - LogInfo.ulRecordCount) - 1

\* C15 as stated: decoding the output with the inverse decoder yields, for
\* each record of the returned slice in order, the original time stamp, tagged
\* value and 4-bit status flags of the record.
C15_Original ==
    NonEmptyResult
    => LET items == ReturnedItems
       IN  /\ SliceStart >= 0 /\ SliceStart + Len(items) <= Len(Logs)
           /\ \A k \in 1 .. Len(items) :
                 /\ items[k].tTimeStamp = Logs[SliceStart + k].tTimeStamp
                 /\ items[k].ucRecType = Logs[SliceStart + k].ucRecType
                 /\ items[k].Datum = Logs[SliceStart + k].Datum
                 /\ items[k].ucStatus = Logs[SliceStart + k].ucStatus

\* C15 amended: decoding the output with the inverse decoder yields, for each
\* record of the returned slice in order, the original time stamp and 4-bit
\* status flags of the record, and its original tagged value when the kind of
\* the record is signed, unsigned, real, enumerated, boolean or null; a
\* record of any other kind decodes as a null value.
C15_RoundTripOfNamedKinds ==
    NonEmptyResult
    => LET items == ReturnedItems
       IN  /\ SliceStart >= 0 /\ SliceStart + Len(items) <= Len(Logs)
           /\ \A k \in 1 .. Len(items) :
                 LET item == items[k]
                     rec == Logs[SliceStart + k]
                 IN  /\ item.tTimeStamp = rec.tTimeStamp
                     /\ item.ucStatus = rec.ucStatus
                     /\ IF rec.ucRecType \in NamedKinds
                        THEN item.ucRecType = rec.ucRecType /\ item.Datum = rec.Datum
                        ELSE item.ucRecType = TL_TYPE_NULL

\* a full buffer read back whole: a signed value, a null and a record of a
\* kind the switch does not name
C15_Witness ==
    /\ NonEmptyResult /\ RecordCount = MaxEntries
    /\ Len(ReturnedItems) = MaxEntries
    /\ \E k \in 1 .. Len(Logs) : Logs[k].ucRecType = TL_TYPE_OTHER
    /\ \E k \in 1 .. Len(Logs) :
          Logs[k].ucRecType \in {TL_TYPE_SIGN, TL_TYPE_ENUM} /\ ReturnedItems[k] = Logs[k]
    /\ \E k \in 1 .. Len(Logs) : Logs[k].tTimeStamp # Logs[1].tTimeStamp

\* the wire kinds of the values of the items, as the encoder wrote them
WireKinds ==
    LET toks == ItemTokens(apdu)
    IN  [k \in 1 .. (Len(toks) \div 7) |-> toks[7 * (k - 1) + 4][1]]

\* the wire kind that stands for a stored kind
WireKindOf(kind) ==
    CASE kind = TL_TYPE_SIGN -> "application_signed"
      [] kind = TL_TYPE_UNSIGN -> "application_unsigned"
      [] kind = TL_TYPE_REAL -> "application_real"
      [] kind = TL_TYPE_ENUM -> "application_enumerated"
      [] kind = TL_TYPE_BOOL -> "application_boolean"
      [] kind = TL_TYPE_NULL -> "application_null"
      [] OTHER -> "none"

\* C16 as stated: for each encoded record the wire value kind equals the
\* stored value kind (signed as signed, unsigned as unsigned, real as real,
\* enumerated as enumerated, boolean as boolean, null as the null marker), and
\* no two distinct stored kinds are encoded with the same wire kind.
C16_Original ==
    NonEmptyResult
    => LET recs == ReturnedRecords
           wire == WireKinds
       IN  /\ \A k \in 1 .. Len(recs) :
                 recs[k].ucRecType \in NamedKinds
                 => wire[k] = WireKindOf(recs[k].ucRecType)
           /\ \A k, l \in 1 .. Len(recs) :
                 recs[k].ucRecType # recs[l].ucRecType => wire[k] # wire[l]

\* C16 amended: for each encoded record whose stored kind is signed,
\* unsigned, real, enumerated, boolean or null the wire value kind is that
\* kind, and no two of these six kinds are encoded with the same wire kind; a
\* record of any other stored kind is encoded with the null marker.
C16_WireKindOfNamedKinds ==
    NonEmptyResult
    => LET recs == ReturnedRecords
           wire == WireKinds
       IN  /\ \A k \in 1 .. Len(recs) :
                 IF recs[k].ucRecType \in NamedKinds
                 THEN wire[k] = WireKindOf(recs[k].ucRecType)
                 ELSE wire[k] = "application_null"
           /\ \A k, l \in 1 .. Len(recs) :
                 (/\ recs[k].ucRecType \in NamedKinds
                  /\ recs[l].ucRecType \in NamedKinds
                  /\ recs[k].ucRecType # recs[l].ucRecType)
                 => wire[k] # wire[l]

\* a response that holds a boolean next to an unsigned value
C16_Witness ==
    /\ NonEmptyResult
    /\ LET recs == ReturnedRecords
           wire == WireKinds
       IN  \E k, l \in 1 .. Len(recs) :
              /\ recs[k].ucRecType = TL_TYPE_BOOL
              /\ recs[l].ucRecType = TL_TYPE_UNSIGN
              /\ wire[k] = "application_boolean"
              /\ wire[l] = "application_unsigned"

\* the records of the slice (start, count) that a fetch delivers, in
\* increasing index order: a fetch fails for the indexes past the newest record
FetchedOfSlice(start, count) ==
    SubSeq(Logs, start + 1,
           IF count > Len(Logs) - start THEN Len(Logs) ELSE start + count)

\* the slice of the response holds indexes for which the fetch fails
SomeFetchFailed == pRequest.ItemCount > RecordCount - SliceStart

\* C17: when the record fetch fails for some logical indexes of the resolved
\* slice, the encoder still returns a success and encodes exactly the records
\* of the slice whose fetch succeeded, in increasing index order; a request
\* fails only for its reference index or its request type, never for a fetch.
C17_FailedFetchIsSkipped ==
    /\ NonEmptyResult
       => ReturnedRecords = FetchedOfSlice(SliceStart, pRequest.ItemCount)
    /\ (OnTheLog /\ RecordCount >= 1 /\ Failed)
       => \/ rrIn.RequestType = RR_BY_POSITION
             /\ (rrIn.RefIndex < 1 \/ rrIn.RefIndex > RecordCount)
          \/ rrIn.RequestType \notin {RR_BY_POSITION, RR_BY_TIME, RR_BY_SEQUENCE}

\* a slice that runs past the newest record: two records are encoded, every
\* further fetch failed
C17_Witness ==
    /\ NonEmptyResult /\ SomeFetchFailed
    /\ RecordCount = MaxEntries /\ SliceStart = MaxEntries - 2
    /\ ReturnedRecords = <<Logs[MaxEntries - 1], Logs[MaxEntries]>>

\* the by-position request with index 1 and count k that rrIn is compared to
PositionOneRequest(k) ==
    BACNET_READ_RANGE_DATA(rrIn.object_instance, RR_BY_POSITION, 1, ZeroTime, k,
        [ItemCount |-> rrIn.ItemCount, FirstSequence |-> rrIn.FirstSequence,
         ResultFlags |-> rrIn.ResultFlags])

\* C18 as stated: a by-sequence request with count c on a non-empty log
\* returns the same records, item count, first_sequence and result flags as
\* the by-position request with index 1 and count |c| (the largest count a
\* request can carry when |c| = 2^31): the slice starts at the oldest record
\* and holds min(|c|, record_count) records, whatever reference sequence
\* number the request carries.
C18_BySequenceIsByPositionOne ==
    (OnTheLog /\ RecordCount >= 1 /\ rrIn.RequestType = RR_BY_SEQUENCE)
    => LET k == IF rrIn.Count = INT32_MIN THEN INT32_MAX ELSE Abs(rrIn.Count)
           pos == rr_trend_log_encode(PositionOneRequest(k), "exact")
       IN  /\ Succeeded /\ pos.iLen >= 0
           /\ apdu = pos.apdu
           /\ pRequest.ItemCount = pos.pRequest.ItemCount
           /\ pRequest.FirstSequence = pos.pRequest.FirstSequence
           /\ pRequest.ResultFlags = pos.pRequest.ResultFlags
           /\ ReturnedRecords = FirstN(Logs, k)
           /\ pRequest.ItemCount = Min(k, RecordCount)

\* C19 as stated: for every request mode and every requested count, the slice
\* (start_index, count) resolved for a non-empty result satisfies
\* 0 <= start_index, count >= 1 and start_index + count <= record_count, so
\* no logical index outside [0, record_count) is fetched for encoding.
C19_SliceWithinLog ==
    NonEmptyResult
    => /\ SliceStart >= 0
       /\ pRequest.ItemCount >= 1
       /\ pRequest.ItemCount <= RecordCount - SliceStart

\* C20 as stated: for every request, the number of octets the encoder writes
\* into the output buffer of the caller never exceeds the fixed maximum size
\* of that buffer, whatever the record count of the log and the requested
\* count.
C20_OutputFitsBuffer ==
    (Replied /\ Succeeded) => (iLen = ApduLen(apdu) /\ iLen <= MAX_APDU)

\* C21: rr_trend_log_encode is read-only on the log: for every request and
\* every outcome (success, empty result, error) the record count, the total
\* record count and all stored records are the same after the call as before.
C21_EncodeLeavesLogUntouched ==
    [][ (pc = "idle" /\ pc' = "replied")
        => (/\ LogInfo'.ulRecordCount = LogInfo.ulRecordCount
            /\ LogInfo'.ulTotalRecordCount = LogInfo.ulTotalRecordCount
            /\ Logs' = Logs) ]_vars

\* a full log read back whole: the records are still in the log
C21_Witness ==
    /\ NonEmptyResult /\ RecordCount = MaxEntries
    /\ LogInfo.ulTotalRecordCount > MaxEntries
    /\ ReturnedRecords = Logs

\* C23: backward reading holds at the extreme of the 32-bit signed count
\* range: a by-position request with a valid reference index r and the most
\* negative 32-bit count returns the r records at positions 1 .. r, the same
\* result as for any count <= -r.
C23_BackwardAtMostNegativeCount ==
    (ByPositionInRange /\ rrIn.Count = INT32_MIN)
    => LET r == rrIn.RefIndex
           same == rr_trend_log_encode([rrIn EXCEPT !.Count = -r], "wrap")
       IN  /\ Succeeded
           /\ pRequest.ItemCount = r
           /\ ReturnedRecords = SubSeq(Logs, 1, r)
           /\ apdu = same.apdu

\* the item count written into the header of a successful response
HeaderItemCount == apdu[4][3][1]

\* C24: in every successful response the item count reported in the header
\* and in the request descriptor equals the number of log records actually
\* encoded between the opening and closing item-data markers, including when
\* some record fetches fail.
C24_ItemCountIsRecordsEncoded ==
    (OnTheLog /\ Succeeded)
    => LET items == ReturnedItems
       IN  /\ apdu[4][1] = "context_unsigned" /\ apdu[4][2] = 3
           /\ HeaderItemCount = pRequest.ItemCount
           /\ pRequest.ItemCount = Len(items)

(***************************************************************************)
(* The encoder in a host that ingests samples in a thread of its own        *)
(***************************************************************************)
\* the requests of the threaded host: forward reads by position
HostRequests ==
    {req \in Requests :
        /\ req.object_instance \in InfoInstances
        /\ req.RequestType = RR_BY_POSITION
        /\ req.RefIndex \in 1 .. MaxEntries
        /\ req.Count \in 1 .. MaxEntries
        /\ req.ItemCount = 0}

\* either the host takes a lock around every call of the encoder, or it does not
InitHost ==
    /\ LogInfo = [ulRecordCount |-> 0, ulTotalRecordCount |-> 0]
    /\ Logs = <<>>
    /\ pc = "idle"
    /\ rrIn = NoRequest
    /\ pRequest = NoRequest
    /\ apdu = <<>>
    /\ iLen = 0
    /\ locked \in BOOLEAN
    /\ locals = NoLocals
    /\ TrendLog_Manager_Init
    /\ InitServerTable
    /\ InitClient

\* rr_trend_log_encode up to its loop: the counters of the log are read, the
\* slice is resolved, the result fields and the header are written
EncodeBegin ==
    /\ pc = "idle"
    /\ \E req \in HostRequests :
         \E r \in {rr_trend_log_encode(req, "wrap")} :
           LET range == ResolveRange(req, LogInfo.ulRecordCount, "wrap")
               inLoop == /\ ~LogEmpty(LogInfo)
                         /\ range.tag = "slice" /\ range.count > 0
           IN  /\ rrIn' = req
               /\ pRequest' = r.pRequest
               /\ apdu' = IF inLoop THEN SubSeq(r.apdu, 1, 5) ELSE r.apdu
               /\ iLen' = IF inLoop THEN ApduLen(SubSeq(r.apdu, 1, 5)) ELSE r.iLen
               /\ locals' = IF inLoop
                            THEN [log_index |-> range.log_index,
                                  count |-> range.count, i |-> 0]
                            ELSE NoLocals
               /\ pc' = IF inLoop THEN "encoding" ELSE "replied"
    /\ UNCHANGED <<LogInfo, Logs, locked>>
    /\ UNCHANGED notHost

\* mutant of EncodeFetch: the fetch is one logical index too far
EncodeFetch_Mutant ==
    /\ pc = "encoding"
    /\ locals.i < locals.count
    /\ LET rec == Trend_Log_Get_Record(rrIn.object_instance,
                                       locals.log_index + locals.i + 1)
       IN  /\ apdu' = IF rec = <<>> THEN apdu ELSE apdu \o EncodeRecord(rec[1])
           /\ iLen' = IF rec = <<>> THEN iLen ELSE iLen + ApduLen(EncodeRecord(rec[1]))
    /\ locals' = [locals EXCEPT !.i = locals.i + 1]
    /\ UNCHANGED <<LogInfo, Logs, pc, rrIn, pRequest, locked>>
    /\ UNCHANGED notHost

\* one iteration of the loop: the record at logical index log_index + i is
\* fetched from the log as it is now, and encoded unless the fetch fails
EncodeFetch ==
    /\ pc = "encoding"
    /\ locals.i < locals.count
    /\ LET rec == Trend_Log_Get_Record(rrIn.object_instance,
                                       locals.log_index + locals.i)
       IN  /\ apdu' = IF rec = <<>> THEN apdu ELSE apdu \o EncodeRecord(rec[1])
           /\ iLen' = IF rec = <<>> THEN iLen ELSE iLen + ApduLen(EncodeRecord(rec[1]))
    /\ locals' = [locals EXCEPT !.i = locals.i + 1]
    /\ UNCHANGED <<LogInfo, Logs, pc, rrIn, pRequest, locked>>
    /\ UNCHANGED notHost

\* the loop is over: closing tag, first sequence number, return
EncodeEnd ==
    /\ pc = "encoding"
    /\ locals.i >= locals.count
    /\ LET tail == << encode_closing_tag(4) >>
                   \o (IF pRequest.FirstSequence > 0
                       THEN << encode_context_unsigned(5, pRequest.FirstSequence) >>
                       ELSE <<>>)
       IN  /\ apdu' = apdu \o tail
           /\ iLen' = iLen + ApduLen(tail)
    /\ locals' = NoLocals
    /\ pc' = "replied"
    /\ UNCHANGED <<LogInfo, Logs, rrIn, pRequest, locked>>
    /\ UNCHANGED notHost

\* the ingestion thread logs a sample while the encoder is in its loop: only a
\* host that does not lock lets it run there
TimerThread ==
    /\ pc = "encoding"
    /\ ~locked
    /\ LogInfo.ulTotalRecordCount < MaxTotal
    /\ \E ts \in TimeStamps :
          TL_Insert_Record(TL_DATA_REC(ts, SampleData(LogInfo.ulTotalRecordCount + 1)))
    /\ UNCHANGED <<pc, rrIn, pRequest, apdu, iLen, locked, locals>>
    /\ UNCHANGED notHost

NextHost ==
    TrendLogTimer \/ EncodeBegin \/ EncodeFetch \/ EncodeEnd \/ TimerThread
    \/ LoopNext

SpecHost == InitHost /\ [][NextHost]_vars

\* the sequence number of a decoded item (the status flags of the n-th sample
\* are n modulo 16)
SequenceOf(item) ==
    CHOOSE n \in 1 .. (MaxTotal + 1) : SampleData(n).ucStatus = item.ucStatus

\* the records of the response are those numbered first_sequence,
\* first_sequence + 1, ... in the order of the response
RecordsFollowFirstSequence ==
    LET items == ReturnedItems
    IN  \A k \in 0 .. (Len(items) - 1) :
           SequenceOf(items[k + 1]) = pRequest.FirstSequence + k

\* C22: when each encode runs atomically with respect to sample ingestion, the
\* k-th record of every response (k counted from 0) is the record whose
\* sequence number is first_sequence + k; when appends may interleave between
\* the read of the counters and the indexed fetches, a response violating
\* this is reachable (C22_Witness).
C22_AtomicEncodeFollowsFirstSequence ==
    (Replied /\ Succeeded /\ locked) => RecordsFollowFirstSequence

\* without the lock: a response whose records are not the ones its first
\* sequence number announces
C22_Witness ==
    /\ Replied /\ Succeeded /\ ~locked
    /\ Len(ReturnedItems) >= 2
    /\ ~RecordsFollowFirstSequence

(***************************************************************************)
(* The trend-log manager (trendlog_manager.c)                              *)
(***************************************************************************)
MAX_TRENDLOGS == 50
MAX_BUFFER_SIZE == 2
MaxSamples == 3
MaxNow == 2

TRENDLOG_TRIGGER_PERIODIC == "TRENDLOG_TRIGGER_PERIODIC"

\* a configuration as TrendLog_Load_Config hands it to TrendLog_Add: the
\* runtime fields are zero
TRENDLOG_CONFIG(instance, enable, buffer_size, stop_when_full) ==
    [instance |-> instance, enable |-> enable,
     trigger_type |-> TRENDLOG_TRIGGER_PERIODIC, log_interval |-> 1,
     buffer_size |-> buffer_size, stop_when_full |-> stop_when_full,
     last_log_time |-> 0, record_count |-> 0, last_value |-> 0,
     is_running |-> FALSE]

\* instance numbers of the configuration; LogInstances \ {1, 2} is never added
LogInstances == {1, 2, 3}

\* the configurations of the model: a log that overwrites, one that stops
\* when full, one that is disabled, one without a buffer, one that is too large
Configs ==
    {TRENDLOG_CONFIG(n, TRUE, MAX_BUFFER_SIZE, FALSE) : n \in {1, 2}}
    \cup {TRENDLOG_CONFIG(1, TRUE, MAX_BUFFER_SIZE, TRUE),
          TRENDLOG_CONFIG(1, FALSE, MAX_BUFFER_SIZE, FALSE),
          TRENDLOG_CONFIG(1, TRUE, 0, FALSE),
          TRENDLOG_CONFIG(1, TRUE, MAX_BUFFER_SIZE + 1, FALSE)}

\* what the configuration file holds: one log, or two
ConfigFiles == {<<c>> : c \in Configs} \cup {<<c, d>> : c, d \in Configs}

\* the value a caller records: the samples of a log are numbered
NextValue(m, w, instance) ==
    LET i == CHOOSE i \in 0 .. m.count :
                 \/ i = 0 /\ \A k \in 1 .. m.count : m.configs[k].instance # instance
                 \/ i > 0 /\ m.configs[i].instance = instance
                          /\ \A k \in 1 .. (i - 1) : m.configs[k].instance # instance
    IN  IF i = 0 THEN 1 ELSE Len(w[i]) + 1

\* an element of a buffer as calloc leaves it
ZeroRecord == [timestamp |-> 0, value |-> 0, status_flags |-> 0]

\* calloc(n, sizeof(TRENDLOG_RECORD))
ZeroBuffer(n) == [k \in 1 .. n |-> ZeroRecord]

\* the index of the first log with the instance number, -1 if there is none
find_trendlog_index(m, instance) ==
    IF \E i \in 1 .. m.count : m.configs[i].instance = instance
    THEN (CHOOSE i \in 1 .. m.count :
             /\ m.configs[i].instance = instance
             /\ \A k \in 1 .. (i - 1) : m.configs[k].instance # instance) - 1
    ELSE -1

\* what (write_idx + 1) % buffer_size yields when it does not trap: a division
\* by zero that does not trap leaves the dividend as the remainder
Remainder(a, b) == IF b = 0 THEN a ELSE a % b

\* mutant of StopWhenFull: the buffer counts as full one record late
StopWhenFull_Mutant(config) ==
    config.stop_when_full /\ config.record_count > config.buffer_size

\* the log is full and is not to be overwritten
StopWhenFull(config) ==
    config.stop_when_full /\ config.record_count >= config.buffer_size

\* mutant of NextWriteIndex: the write index does not wrap to the oldest record
NextWriteIndex_Mutant(write_idx, buffer_size) ==
    IF write_idx + 1 >= buffer_size THEN write_idx ELSE write_idx + 1

\* the write index after a write
NextWriteIndex(write_idx, buffer_size) == Remainder(write_idx + 1, buffer_size)

\* TrendLog_Record_Value at time t on the run rs = [m, w, ret, writes, trapped]:
\* m the manager, w the records stored per log, writes the places written so
\* far.  A write past the end of the buffer changes no element of the buffer.
\* The remainder by zero either traps (the process ends) or does not.
TrendLog_Record_Value(rs, trendlog_instance, value, status_flags, t, ub) ==
    LET m == rs.m
        idx == find_trendlog_index(m, trendlog_instance)
        refused == [rs EXCEPT !.ret = FALSE]
    IN  IF idx < 0 THEN refused
        ELSE LET config == m.configs[idx + 1]
                 write_idx == m.write_index[idx + 1]
                 record == [timestamp |-> t, value |-> value,
                            status_flags |-> status_flags]
                 stored == IF write_idx < config.buffer_size
                           THEN [m.buffers EXCEPT ![idx + 1][write_idx + 1] = record]
                           ELSE m.buffers
                 place == [idx |-> idx, at |-> write_idx,
                           size |-> config.buffer_size]
             IN  IF ~config.is_running THEN refused
                 ELSE IF StopWhenFull(config) THEN refused
                 ELSE IF config.buffer_size = 0 /\ ub = "trap"
                 THEN [rs EXCEPT !.m.buffers = stored,
                                 !.writes = Append(rs.writes, place),
                                 !.ret = FALSE, !.trapped = TRUE]
                 ELSE [m |-> [m EXCEPT
                                !.buffers = stored,
                                !.write_index[idx + 1] =
                                    NextWriteIndex(write_idx, config.buffer_size),
                                !.configs[idx + 1] =
                                    [config EXCEPT
                                       !.record_count =
                                           IF config.record_count < config.buffer_size
                                           THEN config.record_count + 1
                                           ELSE config.record_count,
                                       !.last_value = value,
                                       !.last_log_time = t]],
                       w |-> [rs.w EXCEPT ![idx + 1] = Append(rs.w[idx + 1], record)],
                       ret |-> TRUE,
                       writes |-> Append(rs.writes, place),
                       trapped |-> FALSE]

\* the run of a call that starts in the current state
ThisRun == [m |-> trendlog_manager, w |-> written, ret |-> FALSE,
            writes |-> <<>>, trapped |-> FALSE]

\* the process was not ended by a trap
Alive == ~call.trapped

\* the number of records in the first n histories
RECURSIVE Accepted(_, _)
Accepted(w, n) == IF n = 0 THEN 0 ELSE Len(w[n]) + Accepted(w, n - 1)

\* the model has room for one more record in every log
RoomForSample == Accepted(written, Len(written)) + Len(written) <= MaxSamples

\* what a division by zero does
DivOutcomes == {"trap", "value"}

\* TrendLog_Get_Record_Count
TrendLog_Get_Record_Count(m, trendlog_instance) ==
    LET idx == find_trendlog_index(m, trendlog_instance)
    IN  IF idx < 0 THEN 0 ELSE m.configs[idx + 1].record_count

\* mutant of TrendLog_Get_Record: the index is taken as a place in the buffer
TrendLog_Get_Record_Mutant(m, trendlog_instance, record_index) ==
    LET idx == find_trendlog_index(m, trendlog_instance)
    IN  IF idx < 0 THEN <<>>
        ELSE IF record_index >= m.configs[idx + 1].record_count THEN <<>>
        ELSE << m.buffers[idx + 1][record_index + 1] >>

\* TrendLog_Get_Record: << >> when it returns false, else the record copied out
TrendLog_Get_Record(m, trendlog_instance, record_index) ==
    LET idx == find_trendlog_index(m, trendlog_instance)
    IN  IF idx < 0 THEN <<>>
        ELSE LET config == m.configs[idx + 1]
                 start_idx == m.write_index[idx + 1]
                 real_index == IF config.record_count < config.buffer_size
                               THEN record_index
                               ELSE (start_idx + record_index) % config.buffer_size
             IN  IF record_index >= config.record_count THEN <<>>
                 ELSE << m.buffers[idx + 1][real_index + 1] >>

\* TrendLog_Add: calloc may fail, and may return NULL for a size of 0
TrendLog_Add ==
    /\ Alive
    /\ toLoad # <<>>
    /\ toLoad' = Tail(toLoad)
    /\ UNCHANGED now
    /\ \E config \in {Head(toLoad)}, allocated \in BOOLEAN :
         LET m == trendlog_manager
             accepted == /\ m.count < MAX_TRENDLOGS
                         /\ config.buffer_size <= MAX_BUFFER_SIZE
                         /\ allocated
         IN  /\ trendlog_manager' =
                   IF accepted
                   THEN [count |-> m.count + 1,
                         configs |-> Append(m.configs,
                                       [config EXCEPT !.record_count = 0,
                                                      !.last_log_time = 0,
                                                      !.is_running = config.enable]),
                         buffers |-> Append(m.buffers, ZeroBuffer(config.buffer_size)),
                         write_index |-> Append(m.write_index, 0)]
                   ELSE m
             /\ written' = IF accepted THEN Append(written, <<>>) ELSE written
             /\ call' = [fn |-> "TrendLog_Add", instance |-> config.instance,
                         ret |-> accepted, writes |-> <<>>, trapped |-> FALSE]
    /\ UNCHANGED notManager

\* a caller records a value
RecordValue ==
    /\ Alive /\ RoomForSample
    /\ \E instance \in LogInstances, ub \in DivOutcomes :
         \E rs \in {TrendLog_Record_Value(ThisRun, instance,
                          NextValue(trendlog_manager, written, instance), 0, now, ub)} :
            /\ trendlog_manager' = rs.m
            /\ written' = rs.w
            /\ call' = [fn |-> "TrendLog_Record_Value", instance |-> instance,
                        ret |-> rs.ret, writes |-> rs.writes, trapped |-> rs.trapped]
    /\ UNCHANGED <<now, toLoad>>
    /\ UNCHANGED notManager

\* the loop of TrendLog_Process_Periodic from log i on (i counted from 1)
RECURSIVE PeriodicFrom(_, _, _, _)
PeriodicFrom(rs, i, t, ub) ==
    IF i > rs.m.count \/ rs.trapped THEN rs
    ELSE LET config == rs.m.configs[i]
         IN  IF ~config.is_running \/ config.trigger_type # TRENDLOG_TRIGGER_PERIODIC
             THEN PeriodicFrom(rs, i + 1, t, ub)
             ELSE IF config.last_log_time = 0
                     \/ (t - config.last_log_time) >= config.log_interval
             THEN PeriodicFrom(
                      TrendLog_Record_Value(rs, config.instance, config.last_value,
                                            0, t, ub),
                      i + 1, t, ub)
             ELSE PeriodicFrom(rs, i + 1, t, ub)

TrendLog_Process_Periodic ==
    /\ Alive /\ RoomForSample
    /\ \E ub \in DivOutcomes :
         \E rs \in {PeriodicFrom(ThisRun, 1, now, ub)} :
            /\ trendlog_manager' = rs.m
            /\ written' = rs.w
            /\ call' = [fn |-> "TrendLog_Process_Periodic", instance |-> 0,
                        ret |-> rs.ret, writes |-> rs.writes, trapped |-> rs.trapped]
    /\ UNCHANGED <<now, toLoad>>
    /\ UNCHANGED notManager

TrendLog_Clear_Buffer ==
    /\ Alive
    /\ \E instance \in LogInstances :
         LET m == trendlog_manager
             idx == find_trendlog_index(m, instance)
         IN  /\ trendlog_manager' =
                   IF idx < 0 THEN m
                   ELSE [m EXCEPT
                           !.buffers[idx + 1] =
                               ZeroBuffer(m.configs[idx + 1].buffer_size),
                           !.write_index[idx + 1] = 0,
                           !.configs[idx + 1].record_count = 0,
                           !.configs[idx + 1].last_log_time = 0]
             /\ written' = IF idx < 0 THEN written
                           ELSE [written EXCEPT ![idx + 1] = <<>>]
             /\ call' = [fn |-> "TrendLog_Clear_Buffer", instance |-> instance,
                         ret |-> idx >= 0, writes |-> <<>>, trapped |-> FALSE]
    /\ UNCHANGED <<now, toLoad>>
    /\ UNCHANGED notManager

\* a second passes
Tick ==
    /\ Alive
    /\ now < MaxNow
    /\ now' = now + 1
    /\ call' = NoCall
    /\ UNCHANGED <<trendlog_manager, written, toLoad>>
    /\ UNCHANGED notManager

NextManager ==
    TrendLog_Add \/ RecordValue \/ TrendLog_Process_Periodic
    \/ TrendLog_Clear_Buffer \/ Tick

\* the manager is zeroed and a configuration file is at hand; the encoder of
\* the trend logs of the library is idle
InitManager ==
    /\ LogInfo = [ulRecordCount |-> 0, ulTotalRecordCount |-> 0]
    /\ Logs = <<>>
    /\ pc = "idle"
    /\ rrIn = NoRequest
    /\ pRequest = NoRequest
    /\ apdu = <<>>
    /\ iLen = 0
    /\ InitSingleThreaded
    /\ trendlog_manager = [count |-> 0, configs |-> <<>>, buffers |-> <<>>,
                           write_index |-> <<>>]
    /\ now = 1
    /\ written = <<>>
    /\ call = NoCall
    /\ toLoad \in ConfigFiles
    /\ InitServerTable
    /\ InitClient

SpecManager == InitManager /\ [][NextManager]_vars

\* the log that calls with the instance number reach, as a 1-based slot; 0 if
\* there is none
SlotOf(instance) == find_trendlog_index(trendlog_manager, instance) + 1

\* what TrendLog_Get_Record returns for the indexes 0 .. record_count - 1
RecordsOf(instance) ==
    [k \in 1 .. TrendLog_Get_Record_Count(trendlog_manager, instance) |->
        TrendLog_Get_Record(trendlog_manager, instance, k - 1)]

\* the n most recent records of a history, oldest first, each as a fetch result
MostRecent(h, n) == [k \in 1 .. n |-> << h[Len(h) - n + k] >>]

\* C25: after any sequence of TrendLog_Record_Value calls on a log with
\* buffer_size >= 1 (more calls than buffer_size included), record_count <=
\* buffer_size, and TrendLog_Get_Record(instance, i) for 0 <= i < record_count
\* returns the records in insertion order: index 0 is the oldest record still
\* held, index record_count - 1 the most recently recorded one.
C25_RecordsInInsertionOrder ==
    \A instance \in LogInstances :
       LET slot == SlotOf(instance)
       IN  (slot >= 1 /\ trendlog_manager.configs[slot].buffer_size >= 1)
           => LET config == trendlog_manager.configs[slot]
              IN  /\ config.record_count <= config.buffer_size
                  /\ config.record_count = Min(Len(written[slot]), config.buffer_size)
                  /\ RecordsOf(instance) = MostRecent(written[slot], config.record_count)

\* more records were accepted than the buffer holds: the oldest one is gone
C25_Witness ==
    /\ SlotOf(1) = 1
    /\ trendlog_manager.configs[1].buffer_size = MAX_BUFFER_SIZE
    /\ Len(written[1]) > MAX_BUFFER_SIZE
    /\ trendlog_manager.configs[1].record_count = MAX_BUFFER_SIZE
    /\ RecordsOf(1)[1] = << written[1][2] >>
    /\ call.fn = "TrendLog_Record_Value" /\ call.ret

\* a call with the instance number is to be refused: the instance is unknown,
\* the log is not running, or it stops when full and is full
IsToBeRefused(instance) ==
    LET slot == SlotOf(instance)
    IN  \/ slot = 0
        \/ ~trendlog_manager.configs[slot].is_running
        \/ /\ trendlog_manager.configs[slot].stop_when_full
           /\ trendlog_manager.configs[slot].record_count
                 >= trendlog_manager.configs[slot].buffer_size

\* C26: TrendLog_Record_Value returns false and leaves the log's buffer, write
\* index, record_count, last_value and last_log_time unchanged when the
\* instance is unknown, when the log is not running, or when stop_when_full is
\* set and record_count has reached buffer_size; a stop_when_full log never
\* overwrites a stored record until TrendLog_Clear_Buffer is called.
C26_RefusedRecordChangesNothing ==
    [][ /\ (call'.fn = "TrendLog_Record_Value" /\ IsToBeRefused(call'.instance))
           => (~call'.ret /\ trendlog_manager' = trendlog_manager)
        /\ \A slot \in 1 .. trendlog_manager.count :
              ( /\ trendlog_manager.configs[slot].stop_when_full
                /\ ~( /\ call'.fn = "TrendLog_Clear_Buffer"
                      /\ SlotOf(call'.instance) = slot) )
              => \A p \in 1 .. trendlog_manager.configs[slot].record_count :
                    trendlog_manager'.buffers[slot][p]
                       = trendlog_manager.buffers[slot][p] ]_vars

\* a full log that stops when full has just refused a value
C26_Witness ==
    /\ call.fn = "TrendLog_Record_Value" /\ ~call.ret
    /\ SlotOf(call.instance) = 1
    /\ trendlog_manager.configs[1].stop_when_full
    /\ trendlog_manager.configs[1].is_running
    /\ trendlog_manager.configs[1].record_count = MAX_BUFFER_SIZE
    /\ Len(written[1]) = MAX_BUFFER_SIZE

\* C27: after any sequence of TrendLog_Add, TrendLog_Record_Value and
\* TrendLog_Clear_Buffer calls, every write by TrendLog_Record_Value lands at
\* an index strictly below the buffer_size of the log's allocated buffer and
\* the write-index update never takes a remainder by zero, for every
\* buffer_size TrendLog_Add accepts (0 included).
C27_WritesStayInsideBuffer ==
    \A k \in 1 .. Len(call.writes) :
       /\ call.writes[k].at < call.writes[k].size
       /\ call.writes[k].size # 0

\* the periodic sample of the log in the slot is due at the time
IsDue(slot) ==
    LET config == trendlog_manager.configs[slot]
    IN  /\ config.is_running
        /\ config.trigger_type = TRENDLOG_TRIGGER_PERIODIC
        /\ config.last_log_time = 0 \/ (now - config.last_log_time) >= config.log_interval
        /\ ~(config.stop_when_full /\ config.record_count >= config.buffer_size)

\* C28: for every trend log held by the manager, TrendLog_Process_Periodic
\* appends the periodic sample of that log to that log's own buffer, and
\* TrendLog_Get_Record_Count(instance) reports the record count of the log
\* added with that instance, for every sequence of TrendLog_Add calls, also
\* ones that add two logs with the same instance number.
C28_EachLogGetsItsOwnSample ==
    /\ [][ (call'.fn = "TrendLog_Process_Periodic" /\ ~call'.trapped)
           => \A slot \in 1 .. trendlog_manager.count :
                 written'[slot] =
                    IF IsDue(slot)
                    THEN Append(written[slot],
                                [timestamp |-> now,
                                 value |-> trendlog_manager.configs[slot].last_value,
                                 status_flags |-> 0])
                    ELSE written[slot] ]_vars
    /\ [](\A slot \in 1 .. trendlog_manager.count :
             TrendLog_Get_Record_Count(trendlog_manager,
                                       trendlog_manager.configs[slot].instance)
                = trendlog_manager.configs[slot].record_count)

(***************************************************************************)
(* The pending-request table of the server (client_code_insert.c)          *)
(***************************************************************************)
\* the first slot of the table with the invoke ID, 0 if there is none
FirstSlotWith(invoke_id) ==
    IF \E i \in 1 .. MAX_PENDING_REQUESTS : pending_requests[i].invoke_id = invoke_id
    THEN CHOOSE i \in 1 .. MAX_PENDING_REQUESTS :
            /\ pending_requests[i].invoke_id = invoke_id
            /\ \A k \in 1 .. (i - 1) : pending_requests[k].invoke_id # invoke_id
    ELSE 0

\* the command handler is back in its caller
Returned(message) == [pc |-> "idle", req |-> 0, out |-> message]

\* handle_client_objectlist up to the send: an invoke ID is taken and the first
\* free slot tracks it
TrackRequest ==
    /\ handler.pc = "idle"
    /\ \E invoke_id \in InvokeIds :
         LET i == FirstSlotWith(0)
         IN  IF invoke_id = 0
             THEN /\ handler' = Returned("No free invoke ID")
                  /\ UNCHANGED pending_requests
             ELSE IF i = 0
             THEN /\ handler' = Returned("No free request slot")
                  /\ UNCHANGED pending_requests
             ELSE /\ pending_requests' =
                        [pending_requests EXCEPT
                           ![i] = [invoke_id |-> invoke_id, completed |-> FALSE,
                                   error |-> FALSE, response_json |-> "NULL",
                                   timestamp |-> now]]
                  /\ handler' = [pc |-> "tracked", req |-> i, out |-> "NULL"]
    /\ reply' = NoReply
    /\ UNCHANGED notServer

\* Send_Read_Property_Request_Address: the slot is zeroed when it fails
SendRequest ==
    /\ handler.pc = "tracked"
    /\ \E sent \in BOOLEAN :
         IF sent
         THEN /\ handler' = [handler EXCEPT !.pc = "waiting"]
              /\ UNCHANGED pending_requests
         ELSE /\ pending_requests' = [pending_requests EXCEPT ![handler.req] = FreeSlot]
              /\ handler' = Returned("Failed to send request")
    /\ reply' = NoReply
    /\ UNCHANGED notServer

\* the wait loop finds the request completed: the response is written to the
\* socket and the slot is zeroed
PollCompleted ==
    /\ handler.pc = "waiting"
    /\ pending_requests[handler.req].completed
    /\ handler' = Returned(pending_requests[handler.req].response_json)
    /\ pending_requests' = [pending_requests EXCEPT ![handler.req] = FreeSlot]
    /\ reply' = NoReply
    /\ UNCHANGED notServer

\* the wait loop ran out: the slot is zeroed
Timeout ==
    /\ handler.pc = "waiting"
    /\ handler' = Returned("Timeout waiting for response")
    /\ pending_requests' = [pending_requests EXCEPT ![handler.req] = FreeSlot]
    /\ reply' = NoReply
    /\ UNCHANGED notServer

\* complete_request, called by the handlers of acks, errors, aborts and
\* rejects with the invoke ID of the PDU
complete_request ==
    /\ \E invoke_id \in InvokeIds, is_error \in BOOLEAN :
         LET i == FirstSlotWith(invoke_id)
             json_response == IF is_error THEN "error" ELSE "ack"
         IN  /\ pending_requests' =
                   IF i = 0 THEN pending_requests
                   ELSE [pending_requests EXCEPT
                           ![i].completed = TRUE,
                           ![i].error = is_error,
                           ![i].response_json = json_response]
             /\ reply' = [invoke_id |-> invoke_id, json_response |-> json_response,
                          is_error |-> is_error, handled |-> TRUE]
    /\ UNCHANGED handler
    /\ UNCHANGED notServer

NextServer ==
    TrackRequest \/ SendRequest \/ PollCompleted \/ Timeout \/ complete_request

SpecServer == Init /\ [][NextServer]_vars

\* C29: complete_request changes only a slot that is tracking an outstanding
\* request with the given invoke ID: a reply whose invoke ID matches no
\* outstanding request, invoke ID 0 included, leaves every slot unchanged; and
\* every slot a command handler allocates is free again (invoke_id 0) when
\* that handler has returned on any path (send failure, completion, timeout).
C29_OnlyOutstandingSlotCompleted ==
    /\ [][ reply'.handled
           => \A i \in 1 .. MAX_PENDING_REQUESTS :
                 pending_requests'[i] # pending_requests[i]
                 => /\ handler.pc # "idle" /\ handler.req = i
                    /\ pending_requests[i].invoke_id = reply'.invoke_id ]_vars
    /\ [](handler.pc = "idle"
          => \A i \in 1 .. MAX_PENDING_REQUESTS : pending_requests[i].invoke_id = 0)

(***************************************************************************)
(* The client daemon bacnetStackc: the command-handler thread and the      *)
(* network thread share pending_requests                                   *)
(***************************************************************************)

\* the strings the network thread may strdup in one run
MaxBlocks == 3

\* free(p): the string is no longer live; free(NULL) does nothing
Free(h, p) == [h EXCEPT !.live = @ \ {p}]

\* the handler is between allocate_request and its return
InUse(i) == client.pc # "idle" /\ client.invoke_id = i

\* handle_readprop_command and handle_objectlist_command up to the send:
\* tsm_next_free_invokeID, then allocate_request under response_mutex
allocate_request ==
    /\ client.pc = "idle"
    /\ response_mutex = "free"
    /\ \E invoke_id \in InvokeIds :
         IF invoke_id = 0
         THEN /\ client' = [client EXCEPT !.out = "No free invoke ID"]
              /\ UNCHANGED <<client_requests, heap>>
         ELSE /\ heap' = Free(heap, client_requests[invoke_id].response_json)
              /\ client_requests' =
                   [client_requests EXCEPT
                      ![invoke_id] = [ZeroRequest EXCEPT
                                        !.invoke_id = invoke_id,
                                        !.timestamp = now]]
              /\ client' = [pc |-> "send", invoke_id |-> invoke_id,
                            ptr |-> 0, out |-> "NULL"]
    /\ UNCHANGED <<network, response_mutex>>
    /\ UNCHANGED notClient

\* Send_Read_Property_Request: a failure answers at once and leaves the slot
Send_Read_Property_Request ==
    /\ client.pc = "send"
    /\ \E sent \in BOOLEAN :
         client' = IF sent
                   THEN [client EXCEPT !.pc = "wait"]
                   ELSE [client EXCEPT !.pc = "idle",
                                       !.out = "Failed to send request"]
    /\ UNCHANGED <<client_requests, heap, network, response_mutex>>
    /\ UNCHANGED notClient

\* while (!req->completed && (time(NULL) - start) < 5): the handler reads
\* completed without taking response_mutex and leaves the loop when it is
\* set or when five seconds have passed
WaitLoop ==
    /\ client.pc = "wait"
    /\ \E expired \in BOOLEAN :
         /\ client_requests[client.invoke_id].completed \/ expired
         /\ client' = [client EXCEPT !.pc = "check"]
    /\ UNCHANGED <<client_requests, heap, network, response_mutex>>
    /\ UNCHANGED notClient

\* if (req->completed && req->response_json), read without response_mutex
CheckResponse ==
    /\ client.pc = "check"
    /\ LET req == client_requests[client.invoke_id]
       IN  client' = IF req.completed /\ req.response_json # 0
                     THEN [client EXCEPT !.pc = "write",
                                         !.ptr = req.response_json]
                     ELSE [client EXCEPT !.pc = "idle",
                                         !.out = "Request timeout"]
    /\ UNCHANGED <<client_requests, heap, network, response_mutex>>
    /\ UNCHANGED notClient

\* what write(client_fd, p, strlen(p)) sends
Written(h, p) ==
    IF p = 0 THEN "null pointer"
    ELSE IF p \in h.live THEN "response" ELSE "freed memory"

\* write(client_fd, req->response_json, strlen(req->response_json)): the
\* build passes the pointer it loaded for the test or loads it again
WriteResponse ==
    /\ client.pc = "write"
    /\ \E p \in {client.ptr, client_requests[client.invoke_id].response_json} :
         client' = [client EXCEPT !.pc = "idle", !.out = Written(heap, p)]
    /\ UNCHANGED <<client_requests, heap, network, response_mutex>>
    /\ UNCHANGED notClient

\* complete_request, first half: the network thread takes response_mutex and
\* sets completed and error
CompleteBegin ==
    /\ network.pc = "idle"
    /\ response_mutex = "free"
    /\ heap.next <= MaxBlocks
    /\ \E invoke_id \in InvokeIds, error \in BOOLEAN :
         /\ client_requests' =
              [client_requests EXCEPT ![invoke_id].completed = TRUE,
                                      ![invoke_id].error = error]
         /\ network' = [pc |-> "free", invoke_id |-> invoke_id]
    /\ response_mutex' = "network"
    /\ UNCHANGED <<heap, client>>
    /\ UNCHANGED notClient

\* complete_request: if (req->response_json) free(req->response_json)
CompleteFree ==
    /\ network.pc = "free"
    /\ heap' = Free(heap, client_requests[network.invoke_id].response_json)
    /\ network' = [network EXCEPT !.pc = "store"]
    /\ UNCHANGED <<client_requests, client, response_mutex>>
    /\ UNCHANGED notClient

\* complete_request, the end: response_json = strdup(json), unlock
CompleteStore ==
    /\ network.pc = "store"
    /\ heap' = [next |-> heap.next + 1, live |-> heap.live \cup {heap.next}]
    /\ client_requests' =
         [client_requests EXCEPT
            ![network.invoke_id].response_json = heap.next]
    /\ network' = [network EXCEPT !.pc = "idle"]
    /\ response_mutex' = "free"
    /\ UNCHANGED client
    /\ UNCHANGED notClient

\* cleanup_old_requests, under response_mutex: the slots older than sixty
\* seconds are freed and zeroed; a slot the handler still waits on (for five
\* seconds at most) is taken to be younger than that
cleanup_old_requests ==
    /\ network.pc = "idle"
    /\ response_mutex = "free"
    /\ \E old \in SUBSET {i \in InvokeIds :
                            client_requests[i].timestamp > 0 /\ ~InUse(i)} :
         /\ old # {}
         /\ heap' = [heap EXCEPT
                       !.live = @ \ {client_requests[i].response_json :
                                       i \in old}]
         /\ client_requests' =
              [i \in InvokeIds |->
                 IF i \in old THEN ZeroRequest ELSE client_requests[i]]
    /\ UNCHANGED <<client, network, response_mutex>>
    /\ UNCHANGED notClient

NextClient ==
    \/ allocate_request
    \/ Send_Read_Property_Request
    \/ WaitLoop
    \/ CheckResponse
    \/ WriteResponse
    \/ CompleteBegin
    \/ CompleteFree
    \/ CompleteStore
    \/ cleanup_old_requests

SpecClient == Init /\ [][NextClient]_vars

\* C30: whenever the command handler is about to read completed or
\* response_json of its pending request it holds response_mutex, and what it
\* writes to its socket is never a response_json that the network thread has
\* freed or replaced.
C30_ResponseReadUnderMutex ==
    /\ client.pc \in {"wait", "check", "write"} => response_mutex = "handler"
    /\ client.out # "freed memory"

====
